---- MODULE Spec2Model ----
(***************************************************************************)
(* Model of the field-hockey roster scraper (fhockey_roster_scraper.py)    *)
(* and of the standalone enhancement tool (enhance_roster_data.py).        *)
(*                                                                         *)
(* Text is modelled as a sequence of one-character strings, so that the    *)
(* normalizers (clean_text, extract_position, ...) are computed character  *)
(* by character as the regular expressions of the source compute them.     *)
(* The empty sequence << >> is Python's ''.                                *)
(***************************************************************************)
EXTENDS Integers, Sequences, FiniteSets, TLC

(***************************************************************************)
(* Characters and elementary string functions                              *)
(***************************************************************************)
LowerLetters == << "a","b","c","d","e","f","g","h","i","j","k","l","m",
                   "n","o","p","q","r","s","t","u","v","w","x","y","z" >>
UpperLetters == << "A","B","C","D","E","F","G","H","I","J","K","L","M",
                   "N","O","P","Q","R","S","T","U","V","W","X","Y","Z" >>
DigitChars == {"0","1","2","3","4","5","6","7","8","9"}
\* the characters matched by \s
WhitespaceChars == {" ", "\n", "\t", "\r"}

Range(f) == {f[i] : i \in DOMAIN f}

\* the letter U+212A (KELVIN SIGN), written as one atom: str.lower() gives 'k',
\* str.upper() leaves it, and re.IGNORECASE matches it with 'K' and 'k'
KelvinSign == "U+212A"

\* the characters matched by \w
IsWordChar(c) ==
    c \in Range(LowerLetters) \cup Range(UpperLetters) \cup DigitChars \cup {"_", KelvinSign}

IndexIn(seq, c) == CHOOSE i \in DOMAIN seq : seq[i] = c

ToUpperChar(c) == IF c \in Range(LowerLetters) THEN UpperLetters[IndexIn(LowerLetters, c)] ELSE c
ToLowerChar(c) ==
    IF c \in Range(UpperLetters) THEN LowerLetters[IndexIn(UpperLetters, c)]
    ELSE IF c = KelvinSign THEN "k" ELSE c

\* str.upper() and str.lower()
Upper(s) == [i \in 1..Len(s) |-> ToUpperChar(s[i])]
Lower(s) == [i \in 1..Len(s) |-> ToLowerChar(s[i])]

\* the form under which re.IGNORECASE compares the characters of s
FoldCase(s) == [i \in 1..Len(s) |-> IF s[i] = KelvinSign THEN "K" ELSE ToUpperChar(s[i])]

\* s[i:] of Python with the 1-based index i
From(s, i) == SubSeq(s, i, Len(s))

\* the characters of s from index a to index b, cut at the end of s
Slice(s, a, b) == SubSeq(s, a, IF b > Len(s) THEN Len(s) ELSE b)

\* sub in s
Contains(s, sub) == \E i \in 1..(Len(s) - Len(sub) + 1) : SubSeq(s, i, i + Len(sub) - 1) = sub

\* s.startswith(p)
StartsWith(s, p) == Len(s) >= Len(p) /\ SubSeq(s, 1, Len(p)) = p

\* str.strip()
Strip(s) ==
    LET keep == {i \in 1..Len(s) : s[i] \notin WhitespaceChars}
    IN  IF keep = {} THEN << >>
        ELSE SubSeq(s, CHOOSE i \in keep : \A j \in keep : i <= j,
                       CHOOSE i \in keep : \A j \in keep : i >= j)

\* str.rstrip('/')
RECURSIVE RStripSlash(_)
RStripSlash(s) ==
    IF s # << >> /\ s[Len(s)] = "/" THEN RStripSlash(SubSeq(s, 1, Len(s) - 1)) ELSE s

\* the least element of a non-empty set of integers
Min(S) == CHOOSE i \in S : \A j \in S : i <= j

\* first index >= i of s that holds no character of the set cs (Len(s)+1 when none)
SkipWhile(s, i, cs) ==
    Min({j \in i..(Len(s) + 1) : j = Len(s) + 1 \/ s[j] \notin cs})

\* first index >= i of s that holds a character of the set cs (Len(s)+1 when none)
SkipUntil(s, i, cs) ==
    Min({j \in i..(Len(s) + 1) : j = Len(s) + 1 \/ s[j] \in cs})

(***************************************************************************)
(* FieldExtractors                                                         *)
(***************************************************************************)

\* re.sub(r'\s+', ' ', text): every maximal run of whitespace becomes one space;
\* first holds the index of each character outside a run and of the first
\* character of each run
CollapseWhitespace(s) ==
    LET first == SelectSeq([i \in 1..Len(s) |-> i],
                           LAMBDA i : s[i] \notin WhitespaceChars \/ i = 1
                                      \/ s[i - 1] \notin WhitespaceChars)
    IN  [k \in 1..Len(first) |-> IF s[first[k]] \in WhitespaceChars THEN " " ELSE s[first[k]]]

\* the substitution without the strip that follows it
clean_text_unstripped(text) ==
    IF text = << >> THEN << >> ELSE CollapseWhitespace(text)

clean_text(text) ==
    IF text = << >> THEN << >> ELSE Strip(CollapseWhitespace(text))

\* the character of s at index i, "" outside the string
At(s, i) == IF i \in 1..Len(s) THEN s[i] ELSE ""

\* \b between s[i-1] and s[i]
WordBoundary(s, i) == IsWordChar(At(s, i - 1)) # IsWordChar(At(s, i))

\* ---- extract_position ----
w_GK == <<"G","K">>
w_G == <<"G">>
w_GOALKEEPER == <<"G","O","A","L","K","E","E","P","E","R">>
w_GOALIE == <<"G","O","A","L","I","E">>
w_KEEPER == <<"K","E","E","P","E","R">>
w_D == <<"D">>
w_DEF == <<"D","E","F">>
w_DEFENSE == <<"D","E","F","E","N","S","E">>
w_DEFENDER == <<"D","E","F","E","N","D","E","R">>
w_B == <<"B">>
w_BACK == <<"B","A","C","K">>
w_M == <<"M">>
w_MF == <<"M","F">>
w_MID == <<"M","I","D">>
w_MIDFIELDER == <<"M","I","D","F","I","E","L","D","E","R">>
w_MIDFIELD == <<"M","I","D","F","I","E","L","D">>
w_F == <<"F">>
w_FW == <<"F","W">>
w_FOR == <<"F","O","R">>
w_FORWARD == <<"F","O","R","W","A","R","D">>
w_A == <<"A">>
w_ATT == <<"A","T","T">>
w_ATTACK == <<"A","T","T","A","C","K">>
w_ATTACKER == <<"A","T","T","A","C","K","E","R">>
w_O == <<"O">>
w_OFFENSE == <<"O","F","F","E","N","S","E">>

\* the alternatives of the position pattern, in the order the pattern lists them
PositionTokens == <<
    w_GK, w_G, w_GOALKEEPER, w_GOALIE,
    w_D, w_DEF, w_DEFENSE, w_DEFENDER, w_B, w_BACK,
    w_M, w_MF, w_MID, w_MIDFIELDER, w_MIDFIELD,
    w_F, w_FW, w_FOR, w_FORWARD, w_A, w_ATT, w_ATTACK, w_ATTACKER, w_O, w_OFFENSE >>

\* \b tok \b matches at index i of s, ignoring case
TokenMatchesAt(s, i, tok) ==
    /\ i + Len(tok) - 1 <= Len(s)
    /\ FoldCase(SubSeq(s, i, i + Len(tok) - 1)) = tok
    /\ WordBoundary(s, i)
    /\ WordBoundary(s, i + Len(tok))

\* the chain without its last return: a token of no tuple gives ''
NormalizePositionTokenOrEmpty(pos) ==
    IF pos \in {w_GK, w_G, w_GOALKEEPER, w_GOALIE} THEN w_GK
    ELSE IF pos \in {w_DEF, w_D, w_DEFENSE, w_DEFENDER, w_B, w_BACK} THEN w_D
    ELSE IF pos \in {w_MID, w_MF, w_MIDFIELDER, w_MIDFIELD} THEN w_M
    ELSE IF pos \in {w_FOR, w_FW, w_F, w_FORWARD, w_A, w_ATT, w_ATTACK, w_ATTACKER,
                     w_O, w_OFFENSE} THEN w_F
    ELSE << >>

\* the if/elif chain that normalizes the matched token; a token of no tuple
\* is returned as it is
NormalizePositionToken(pos) ==
    IF pos \in {w_GK, w_G, w_GOALKEEPER, w_GOALIE} THEN w_GK
    ELSE IF pos \in {w_DEF, w_D, w_DEFENSE, w_DEFENDER, w_B, w_BACK} THEN w_D
    ELSE IF pos \in {w_MID, w_MF, w_MIDFIELDER, w_MIDFIELD} THEN w_M
    ELSE IF pos \in {w_FOR, w_FW, w_F, w_FORWARD, w_A, w_ATT, w_ATTACK, w_ATTACKER,
                     w_O, w_OFFENSE} THEN w_F
    ELSE pos

\* the fallback over the upper-cased text
PositionFallback(text_upper) ==
    IF Contains(text_upper, w_GOALKEEPER) \/ Contains(text_upper, w_GOALIE)
          \/ Contains(text_upper, w_KEEPER) THEN w_GK
    ELSE IF Contains(text_upper, w_DEFENSE) \/ Contains(text_upper, w_DEFENDER)
          \/ Contains(text_upper, w_BACK) THEN w_D
    ELSE IF Contains(text_upper, w_MIDFIELDER) \/ Contains(text_upper, w_MIDFIELD) THEN w_M
    ELSE IF Contains(text_upper, w_FORWARD) \/ Contains(text_upper, w_ATTACK)
          \/ Contains(text_upper, w_OFFENSE) THEN w_F
    ELSE << >>

extract_position(text) ==
    IF text = << >> THEN << >>
    ELSE LET t == Strip(text)
             starts == {i \in 1..Len(t) :
                          \E k \in DOMAIN PositionTokens : TokenMatchesAt(t, i, PositionTokens[k])}
         IN  IF starts # {}
             THEN LET i == Min(starts)
                      k == Min({n \in DOMAIN PositionTokens :
                                  TokenMatchesAt(t, i, PositionTokens[n])})
                      pos == Upper(SubSeq(t, i, i + Len(PositionTokens[k]) - 1))
                  IN  NormalizePositionToken(pos)
             ELSE PositionFallback(Upper(t))

\* ---- normalize_academic_year ----
Freshman == <<"F","r","e","s","h","m","a","n">>
Sophomore == <<"S","o","p","h","o","m","o","r","e">>
Junior == <<"J","u","n","i","o","r">>
Senior == <<"S","e","n","i","o","r">>
Graduate == <<"G","r","a","d","u","a","t","e">>
RedshirtFreshman == <<"R","e","d","s","h","i","r","t"," ","F","r","e","s","h","m","a","n">>
RedshirtSophomore == <<"R","e","d","s","h","i","r","t"," ","S","o","p","h","o","m","o","r","e">>
RedshirtJunior == <<"R","e","d","s","h","i","r","t"," ","J","u","n","i","o","r">>
RedshirtSenior == <<"R","e","d","s","h","i","r","t"," ","S","e","n","i","o","r">>

\* the dictionary year_map as a sequence of << key, value >>
year_map == <<
    << <<"F","r">>, Freshman >>, << <<"F","r",".">>, Freshman >>, << <<"F","R">>, Freshman >>,
    << <<"S","o">>, Sophomore >>, << <<"S","o",".">>, Sophomore >>, << <<"S","O">>, Sophomore >>,
    << <<"J","r">>, Junior >>, << <<"J","r",".">>, Junior >>, << <<"J","R">>, Junior >>,
    << <<"S","r">>, Senior >>, << <<"S","r",".">>, Senior >>, << <<"S","R">>, Senior >>,
    << <<"G","r">>, Graduate >>, << <<"G","r",".">>, Graduate >>, << <<"G","R">>, Graduate >>,
    << <<"R","-","F","r">>, RedshirtFreshman >>, << <<"R","-","F","r",".">>, RedshirtFreshman >>,
    << <<"R","-","S","o">>, RedshirtSophomore >>, << <<"R","-","S","o",".">>, RedshirtSophomore >>,
    << <<"R","-","J","r">>, RedshirtJunior >>, << <<"R","-","J","r",".">>, RedshirtJunior >>,
    << <<"R","-","S","r">>, RedshirtSenior >>, << <<"R","-","S","r",".">>, RedshirtSenior >>,
    << <<"1","s","t">>, Freshman >>, << <<"F","i","r","s","t">>, Freshman >>,
    << <<"2","n","d">>, Sophomore >>, << <<"S","e","c","o","n","d">>, Sophomore >>,
    << <<"3","r","d">>, Junior >>, << <<"T","h","i","r","d">>, Junior >>,
    << <<"4","t","h">>, Senior >>, << <<"F","o","u","r","t","h">>, Senior >>,
    << <<"5","t","h">>, Graduate >>, << <<"F","i","f","t","h">>, Graduate >> >>

\* the lookup with the keys compared without regard to case
normalize_academic_year_any_case(year_text) ==
    IF year_text = << >> THEN << >>
    ELSE IF \E k \in DOMAIN year_map : Upper(year_map[k][1]) = Upper(year_text)
         THEN year_map[CHOOSE k \in DOMAIN year_map :
                           Upper(year_map[k][1]) = Upper(year_text)][2]
         ELSE year_text

normalize_academic_year(year_text) ==
    IF year_text = << >> THEN << >>
    ELSE IF \E k \in DOMAIN year_map : year_map[k][1] = year_text
         THEN year_map[CHOOSE k \in DOMAIN year_map : year_map[k][1] = year_text][2]
         ELSE year_text

\* ---- extract_hometown_parts ----
\* re.match(r'([^/]+?)\s*/\s*(.+)', s): the '/' of the pattern is the first '/' of s,
\* at least one character precedes it, and (.+) needs one character that is no
\* newline after it. The result is << matched, group 1, group 2 >>.
HometownMatch(s) ==
    LET k == SkipUntil(s, 1, {"/"})
        w == SkipWhile(s, k + 1, WhitespaceChars)
    IN  IF k > Len(s) \/ k = 1 THEN << FALSE, << >>, << >> >>
        ELSE IF w <= Len(s)
             \* \s* takes the whole run, (.+) runs to the end of the line
             THEN << TRUE, SubSeq(s, 1, k - 1),
                     SubSeq(s, w, SkipUntil(s, w, {"\n"}) - 1) >>
        \* only whitespace follows the '/': \s* gives back one character that is
        \* no newline, and group 2 is that whitespace
        ELSE IF \E j \in (k + 1)..Len(s) : s[j] # "\n"
             THEN << TRUE, SubSeq(s, 1, k - 1), << " " >> >>
        ELSE << FALSE, << >>, << >> >>

\* the result is the pair << hometown, high_school >>
extract_hometown_parts(hometown_text) ==
    IF hometown_text = << >> THEN << << >>, << >> >>
    ELSE LET m == HometownMatch(hometown_text)
         IN  IF m[1] THEN << Strip(m[2]), Strip(m[3]) >>
             ELSE << Strip(hometown_text), << >> >>

\* ---- extract_height ----
\* characters that close the feet and the inches; "U+2032" and "U+2033" stand
\* for the one-character prime and double prime of the patterns
FeetMarks == {"'", "U+2032"}
InchMarks == {"\"", "U+2033", "'"}

\* \d+['U+2032]\s*\d+["U+2033']{1,2} at index i: the index after the match, 0 when none
ImperialEnd(t, i) ==
    LET d1 == SkipWhile(t, i, DigitChars)
        w  == SkipWhile(t, d1 + 1, WhitespaceChars)
        d2 == SkipWhile(t, w, DigitChars)
    IN  IF d1 > i /\ At(t, d1) \in FeetMarks /\ d2 > w /\ At(t, d2) \in InchMarks
        THEN (IF At(t, d2 + 1) \in InchMarks THEN d2 + 2 ELSE d2 + 1)
        ELSE 0

\* \s*/\s*\d+\.\d+m at index i: the index after the match, 0 when none
MetricSuffixEnd(t, i) ==
    LET w1 == SkipWhile(t, i, WhitespaceChars)
        w2 == SkipWhile(t, w1 + 1, WhitespaceChars)
        d1 == SkipWhile(t, w2, DigitChars)
        d2 == SkipWhile(t, d1 + 1, DigitChars)
    IN  IF At(t, w1) = "/" /\ d1 > w2 /\ At(t, d1) = "." /\ d2 > d1 + 1 /\ At(t, d2) = "m"
        THEN d2 + 1
        ELSE 0

\* pattern 1: imperial with the optional metric suffix
HeightPattern1End(t, i) ==
    LET e == ImperialEnd(t, i)
    IN  IF e = 0 THEN 0
        ELSE IF MetricSuffixEnd(t, e) # 0 THEN MetricSuffixEnd(t, e) ELSE e

\* pattern 3: \d+-\d+
HeightPattern3End(t, i) ==
    LET d1 == SkipWhile(t, i, DigitChars)
        d2 == SkipWhile(t, d1 + 1, DigitChars)
    IN  IF d1 > i /\ At(t, d1) = "-" /\ d2 > d1 + 1 THEN d2 ELSE 0

\* pattern 4: \d+\.\d+m
HeightPattern4End(t, i) ==
    LET d1 == SkipWhile(t, i, DigitChars)
        d2 == SkipWhile(t, d1 + 1, DigitChars)
    IN  IF d1 > i /\ At(t, d1) = "." /\ d2 > d1 + 1 /\ At(t, d2) = "m" THEN d2 + 1 ELSE 0

HeightLabel == <<"H","e","i","g","h","t",":">>

\* pattern 5: Height:\s*([^\,\n]+) at index i: << matched, group 1 >>. When the
\* whitespace after the label runs into ',' or a newline or the end, \s* gives
\* back one character that is no newline and the group is that whitespace.
HeightPattern5(t, i) ==
    LET j == i + Len(HeightLabel)
        w == SkipWhile(t, j, WhitespaceChars)
    IN  IF Slice(t, i, j - 1) # HeightLabel THEN << FALSE, << >> >>
        ELSE IF w <= Len(t) /\ t[w] \notin {",", "\n"}
             THEN << TRUE, SubSeq(t, w, SkipUntil(t, w, {",", "\n"}) - 1) >>
        ELSE IF \E n \in j..(w - 1) : t[n] # "\n"
             THEN << TRUE, << " " >> >>
        ELSE << FALSE, << >> >>

\* re.search of the patterns in order; the first pattern that matches anywhere
\* decides, at its leftmost match
extract_height(text) ==
    IF text = << >> THEN << >>
    ELSE LET idx == 1..Len(text)
             m1 == {i \in idx : HeightPattern1End(text, i) # 0}
             m2 == {i \in idx : ImperialEnd(text, i) # 0}
             m3 == {i \in idx : HeightPattern3End(text, i) # 0}
             m4 == {i \in idx : HeightPattern4End(text, i) # 0}
             m5 == {i \in idx : HeightPattern5(text, i)[1]}
         IN  IF m1 # {} THEN Strip(SubSeq(text, Min(m1), HeightPattern1End(text, Min(m1)) - 1))
             ELSE IF m2 # {} THEN Strip(SubSeq(text, Min(m2), ImperialEnd(text, Min(m2)) - 1))
             ELSE IF m3 # {} THEN Strip(SubSeq(text, Min(m3), HeightPattern3End(text, Min(m3)) - 1))
             ELSE IF m4 # {} THEN Strip(SubSeq(text, Min(m4), HeightPattern4End(text, Min(m4)) - 1))
             ELSE IF m5 # {} THEN Strip(HeightPattern5(text, Min(m5))[2])
             ELSE << >>

\* ---- extract_jersey_number ----
JerseyLabel == <<"J","e","r","s","e","y"," ","N","u","m","b","e","r">>
UpperChars == Range(UpperLetters)

\* (\d{1,2})\b at index i: the index after the digits, 0 when none
OneOrTwoDigitsEnd(t, i) ==
    LET d == SkipWhile(t, i, DigitChars)
    IN  IF d - i \in {1, 2} /\ ~IsWordChar(At(t, d)) THEN d ELSE 0

\* pattern 1: Jersey Number[:\s]+(\d+), the bounds << from, to >> of group 1
JerseyPattern1(t, i) ==
    LET j == i + Len(JerseyLabel)
        s == SkipWhile(t, j, WhitespaceChars \cup {":"})
        d == SkipWhile(t, s, DigitChars)
    IN  IF Slice(t, i, j - 1) = JerseyLabel /\ s > j /\ d > s THEN << s, d - 1 >> ELSE << 0, 0 >>

\* pattern 2: #(\d{1,2})\b
JerseyPattern2(t, i) ==
    IF At(t, i) = "#" /\ OneOrTwoDigitsEnd(t, i + 1) # 0
    THEN << i + 1, OneOrTwoDigitsEnd(t, i + 1) - 1 >> ELSE << 0, 0 >>

\* pattern 3: No\.?[:\s]*(\d{1,2})\b
JerseyPattern3(t, i) ==
    LET j == IF At(t, i + 2) = "." THEN i + 3 ELSE i + 2
        s == SkipWhile(t, j, WhitespaceChars \cup {":"})
    IN  IF At(t, i) = "N" /\ At(t, i + 1) = "o" /\ OneOrTwoDigitsEnd(t, s) # 0
        THEN << s, OneOrTwoDigitsEnd(t, s) - 1 >> ELSE << 0, 0 >>

\* pattern 4: \b(\d{1,2})\s+(?=[A-Z])
JerseyPattern4(t, i) ==
    LET d == SkipWhile(t, i, DigitChars)
        w == SkipWhile(t, d, WhitespaceChars)
    IN  IF WordBoundary(t, i) /\ d - i \in {1, 2} /\ w > d /\ At(t, w) \in UpperChars
        THEN << i, d - 1 >> ELSE << 0, 0 >>

\* pattern 5: ^\s*(\d{1,2})\s*$
JerseyPattern5(t) ==
    LET s == Strip(t)
    IN  Len(s) \in {1, 2} /\ \A n \in 1..Len(s) : s[n] \in DigitChars

extract_jersey_number(text) ==
    IF text = << >> THEN << >>
    ELSE LET idx == 1..Len(text)
             m1 == {i \in idx : JerseyPattern1(text, i)[1] # 0}
             m2 == {i \in idx : JerseyPattern2(text, i)[1] # 0}
             m3 == {i \in idx : JerseyPattern3(text, i)[1] # 0}
             m4 == {i \in idx : JerseyPattern4(text, i)[1] # 0}
             Group(g) == SubSeq(text, g[1], g[2])
         IN  IF m1 # {} THEN Group(JerseyPattern1(text, Min(m1)))
             ELSE IF m2 # {} THEN Group(JerseyPattern2(text, Min(m2)))
             ELSE IF m3 # {} THEN Group(JerseyPattern3(text, Min(m3)))
             ELSE IF m4 # {} THEN Group(JerseyPattern4(text, Min(m4)))
             ELSE IF JerseyPattern5(text) THEN Strip(text)
             ELSE << >>

(***************************************************************************)
(* Player (the dataclass). player_id is never assigned and is left out.    *)
(***************************************************************************)
Empty == << >>
Dash == << "-" >>

\* Player(team_id=..., ..., url=profile_url): major and previous_school take
\* their default ''
NewPlayer(team_id, team, season, division, name, jersey, position, height, year, hometown, high_school, url) ==
    [team_id |-> team_id, team |-> team, season |-> season, division |-> division,
     name |-> name, jersey |-> jersey, position |-> position, height |-> height,
     year |-> year, major |-> Empty, hometown |-> hometown, high_school |-> high_school,
     previous_school |-> Empty, url |-> url]

\* Player.to_dict: the text fields cleaned, year under 'class', team_id under
\* 'ncaa_id'
to_dict(p) ==
    [team |-> clean_text(p.team), season |-> clean_text(p.season),
     division |-> clean_text(p.division), name |-> clean_text(p.name),
     jersey |-> clean_text(p.jersey), position |-> clean_text(p.position),
     height |-> clean_text(p.height), major |-> clean_text(p.major),
     hometown |-> clean_text(p.hometown), high_school |-> clean_text(p.high_school),
     previous_school |-> clean_text(p.previous_school), url |-> clean_text(p.url),
     class |-> clean_text(p.year), ncaa_id |-> p.team_id]

\* the label substrings of the rules
k_position == <<"p","o","s","i","t","i","o","n">>
k_pos == <<"p","o","s">>
k_height == <<"h","e","i","g","h","t">>
k_ht == <<"h","t">>
k_class == <<"c","l","a","s","s">>
k_year == <<"y","e","a","r">>
k_eligibility == <<"e","l","i","g","i","b","i","l","i","t","y">>
k_major == <<"m","a","j","o","r">>
k_academic == <<"a","c","a","d","e","m","i","c">>
k_hometown == <<"h","o","m","e","t","o","w","n">>
k_high_school == <<"h","i","g","h"," ","s","c","h","o","o","l">>
k_hs == <<"h","s">>
k_previous_school == <<"p","r","e","v","i","o","u","s"," ","s","c","h","o","o","l">>
k_last_school == <<"l","a","s","t"," ","s","c","h","o","o","l">>
k_transfer == <<"t","r","a","n","s","f","e","r">>
k_name == <<"n","a","m","e">>
k_number == <<"n","u","m","b","e","r">>
k_jersey == <<"j","e","r","s","e","y">>

\* a or b of Python for two strings
OrElse(a, b) == IF a # Empty THEN a ELSE b

(***************************************************************************)
(* StandardScraper._scrape_player_profile                                  *)
(*                                                                         *)
(* A profile page is [bio, dl, tables]: bio is the sequence of bio items   *)
(* of the first bio div (empty when the page has none), each item          *)
(* [has_label, label, has_value, value] with the raw text of its spans;    *)
(* dl is [dts, dds], the raw texts of the dt and dd elements of the first  *)
(* bio dl; tables is the sequence of detail tables, each a sequence of     *)
(* rows, each row the sequence of raw texts of its cells.                  *)
(* A response is [raises, status, page].                                   *)
(***************************************************************************)

\* the hometown branch as the roster pass writes it: part 2 replaces a high
\* school that is already there
SetHometownOverwriting(player, value) ==
    LET parts == extract_hometown_parts(value)
    IN  [player EXCEPT !.hometown = parts[1],
                       !.high_school = IF parts[2] # Empty THEN parts[2] ELSE @]

\* the hometown branch: hometown takes part 1, high_school takes part 2 when
\* part 2 is non-empty and high_school is empty
SetHometown(player, value) ==
    LET parts == extract_hometown_parts(value)
    IN  [player EXCEPT !.hometown = parts[1],
                       !.high_school = IF parts[2] # Empty /\ player.high_school = Empty
                                       THEN parts[2] ELSE @]

\* the bio item with the major rule testing the class field in place of the
\* major field
ProfileBioFieldMajorUnlessYear(player, label, value) ==
    IF value = Empty \/ value = Dash THEN player
    ELSE IF Contains(label, k_position) \/ Contains(label, k_pos)
         THEN (IF player.position = Empty
               THEN [player EXCEPT !.position = extract_position(value)] ELSE player)
    ELSE IF Contains(label, k_height) \/ Contains(label, k_ht)
         THEN (IF player.height = Empty
               THEN [player EXCEPT !.height = OrElse(extract_height(value), value)] ELSE player)
    ELSE IF Contains(label, k_class) \/ Contains(label, k_year) \/ Contains(label, k_eligibility)
         THEN (IF player.year = Empty
               THEN [player EXCEPT !.year = normalize_academic_year(value)] ELSE player)
    ELSE IF Contains(label, k_major) \/ Contains(label, k_academic)
         THEN (IF player.year = Empty THEN [player EXCEPT !.major = value] ELSE player)
    ELSE IF Contains(label, k_hometown)
         THEN (IF player.hometown = Empty THEN SetHometown(player, value) ELSE player)
    ELSE IF Contains(label, k_high_school) \/ Contains(label, k_hs)
         THEN (IF player.high_school = Empty
               THEN [player EXCEPT !.high_school = value] ELSE player)
    ELSE IF Contains(label, k_previous_school) \/ Contains(label, k_last_school)
               \/ Contains(label, k_transfer)
         THEN (IF player.previous_school = Empty
               THEN [player EXCEPT !.previous_school = value] ELSE player)
    ELSE player

\* one bio item: label is cleaned and lower-cased, value is cleaned
ProfileBioField(player, label, value) ==
    IF value = Empty \/ value = Dash THEN player
    ELSE IF Contains(label, k_position) \/ Contains(label, k_pos)
         THEN (IF player.position = Empty
               THEN [player EXCEPT !.position = extract_position(value)] ELSE player)
    ELSE IF Contains(label, k_height) \/ Contains(label, k_ht)
         THEN (IF player.height = Empty
               THEN [player EXCEPT !.height = OrElse(extract_height(value), value)] ELSE player)
    ELSE IF Contains(label, k_class) \/ Contains(label, k_year) \/ Contains(label, k_eligibility)
         THEN (IF player.year = Empty
               THEN [player EXCEPT !.year = normalize_academic_year(value)] ELSE player)
    ELSE IF Contains(label, k_major) \/ Contains(label, k_academic)
         THEN (IF player.major = Empty THEN [player EXCEPT !.major = value] ELSE player)
    ELSE IF Contains(label, k_hometown)
         THEN (IF player.hometown = Empty THEN SetHometown(player, value) ELSE player)
    ELSE IF Contains(label, k_high_school) \/ Contains(label, k_hs)
         THEN (IF player.high_school = Empty
               THEN [player EXCEPT !.high_school = value] ELSE player)
    ELSE IF Contains(label, k_previous_school) \/ Contains(label, k_last_school)
               \/ Contains(label, k_transfer)
         THEN (IF player.previous_school = Empty
               THEN [player EXCEPT !.previous_school = value] ELSE player)
    ELSE player

\* one dt/dd pair
ProfileDlField(player, label, value) ==
    IF value = Empty \/ value = Dash THEN player
    ELSE IF Contains(label, k_position) \/ Contains(label, k_pos)
         THEN (IF player.position = Empty
               THEN [player EXCEPT !.position = extract_position(value)] ELSE player)
    ELSE IF Contains(label, k_height) \/ Contains(label, k_ht)
         THEN (IF player.height = Empty
               THEN [player EXCEPT !.height = OrElse(extract_height(value), value)] ELSE player)
    ELSE IF Contains(label, k_class) \/ Contains(label, k_year) \/ Contains(label, k_eligibility)
         THEN (IF player.year = Empty
               THEN [player EXCEPT !.year = normalize_academic_year(value)] ELSE player)
    ELSE IF Contains(label, k_major) \/ Contains(label, k_academic)
         THEN (IF player.major = Empty THEN [player EXCEPT !.major = value] ELSE player)
    ELSE IF Contains(label, k_hometown)
         THEN (IF player.hometown = Empty THEN SetHometown(player, value) ELSE player)
    ELSE IF Contains(label, k_high_school) \/ Contains(label, k_hs)
         THEN (IF player.high_school = Empty
               THEN [player EXCEPT !.high_school = value] ELSE player)
    ELSE IF Contains(label, k_previous_school) \/ Contains(label, k_last_school)
               \/ Contains(label, k_transfer)
         THEN (IF player.previous_school = Empty
               THEN [player EXCEPT !.previous_school = value] ELSE player)
    ELSE player

\* one row of a detail table: the rules name one substring each
ProfileTableField(player, label, value) ==
    IF value = Empty \/ value = Dash THEN player
    ELSE IF Contains(label, k_position)
         THEN (IF player.position = Empty
               THEN [player EXCEPT !.position = extract_position(value)] ELSE player)
    ELSE IF Contains(label, k_height)
         THEN (IF player.height = Empty
               THEN [player EXCEPT !.height = OrElse(extract_height(value), value)] ELSE player)
    ELSE IF Contains(label, k_class) \/ Contains(label, k_year)
         THEN (IF player.year = Empty
               THEN [player EXCEPT !.year = normalize_academic_year(value)] ELSE player)
    ELSE IF Contains(label, k_major)
         THEN (IF player.major = Empty THEN [player EXCEPT !.major = value] ELSE player)
    ELSE IF Contains(label, k_hometown)
         THEN (IF player.hometown = Empty THEN SetHometown(player, value) ELSE player)
    ELSE IF Contains(label, k_high_school)
         THEN (IF player.high_school = Empty
               THEN [player EXCEPT !.high_school = value] ELSE player)
    ELSE IF Contains(label, k_previous_school)
         THEN (IF player.previous_school = Empty
               THEN [player EXCEPT !.previous_school = value] ELSE player)
    ELSE player

\* for item in bio_items
RECURSIVE ProfileBioPass(_, _)
ProfileBioPass(player, items) ==
    IF items = << >> THEN player
    ELSE LET item == Head(items)
             next == IF item.has_label /\ item.has_value
                     THEN ProfileBioField(player, Lower(clean_text(item.label)),
                                          clean_text(item.value))
                     ELSE player
         IN  ProfileBioPass(next, Tail(items))

\* for dt, dd in zip(dts, dds)
RECURSIVE ProfileDlPass(_, _, _)
ProfileDlPass(player, dts, dds) ==
    IF dts = << >> \/ dds = << >> THEN player
    ELSE ProfileDlPass(ProfileDlField(player, Lower(clean_text(Head(dts))),
                                      clean_text(Head(dds))),
                       Tail(dts), Tail(dds))

\* for row in rows
RECURSIVE ProfileRowsPass(_, _)
ProfileRowsPass(player, rows) ==
    IF rows = << >> THEN player
    ELSE LET cells == Head(rows)
             next == IF Len(cells) >= 2
                     THEN ProfileTableField(player, Lower(clean_text(cells[1])),
                                            clean_text(cells[2]))
                     ELSE player
         IN  ProfileRowsPass(next, Tail(rows))

\* for table in detail_tables
RECURSIVE ProfileTablesPass(_, _)
ProfileTablesPass(player, tables) ==
    IF tables = << >> THEN player
    ELSE ProfileTablesPass(ProfileRowsPass(player, Head(tables)), Tail(tables))

\* the three shapes, in the order of the source
ProfileParse(player, page) ==
    ProfileTablesPass(ProfileDlPass(ProfileBioPass(player, page.bio),
                                    page.dl.dts, page.dl.dds),
                      page.tables)

\* whether _scrape_player_profile issues its request
ProfileFetchAttempted(player) == player.url # Empty

\* the profile pass without the test of the status code: the body of an error
\* response is read like a profile page
_scrape_player_profile_any_status(player, response) ==
    IF player.url = Empty THEN player
    ELSE IF response.raises THEN player
    ELSE IF response.parse_raises THEN player
    ELSE ProfileParse(player, response.page)

\* the profile pass that reads the page into the record without the jersey the
\* roster page gave it
_scrape_player_profile_clearing_jersey(player, response) ==
    IF player.url = Empty THEN player
    ELSE IF response.raises THEN player
    ELSE IF response.status # 200 THEN player
    ELSE IF response.parse_raises THEN player
    ELSE ProfileParse([player EXCEPT !.jersey = Empty], response.page)

\* A response is [raises, status, parse_raises, page]: session.get raises, or
\* answers with the status; BeautifulSoup(response.content, 'html.parser')
\* raises (line 525), or gives the page. The statements of the three passes
\* raise on no page content, so the constructor is where a parse error starts.
_scrape_player_profile(player, response) ==
    IF player.url = Empty THEN player
    ELSE IF response.raises THEN player
    ELSE IF response.status # 200 THEN player
    ELSE IF response.parse_raises THEN player
    ELSE ProfileParse(player, response.page)

(***************************************************************************)
(* ProfileEnhancer.scrape_player_profile (enhance_roster_data.py)          *)
(*                                                                         *)
(* A CSV row is a function from its column names to text. row.get(k) of a  *)
(* missing column is None, which is as false as ''.                        *)
(***************************************************************************)
Get(row, k) == IF k \in DOMAIN row THEN row[k] ELSE Empty

\* row[k] = v
Put(row, k, v) == [c \in (DOMAIN row) \cup {k} |-> IF c = k THEN v ELSE row[c]]

EnhSetHometown(row, value) ==
    LET parts == extract_hometown_parts(value)
        r1 == Put(row, "hometown", parts[1])
    IN  IF parts[2] # Empty /\ Get(row, "high_school") = Empty
        THEN Put(r1, "high_school", parts[2]) ELSE r1

\* one bio item: each rule also asks that its column is empty, so a label of a
\* filled column goes on to the rules after it
EnhBioField(row, label, value) ==
    IF value = Empty \/ value = Dash THEN row
    ELSE IF (Contains(label, k_position) \/ Contains(label, k_pos))
               /\ Get(row, "position") = Empty
         THEN Put(row, "position", extract_position(value))
    ELSE IF (Contains(label, k_height) \/ Contains(label, k_ht))
               /\ Get(row, "height") = Empty
         THEN Put(row, "height", OrElse(extract_height(value), value))
    ELSE IF (Contains(label, k_class) \/ Contains(label, k_year)
               \/ Contains(label, k_eligibility)) /\ Get(row, "class") = Empty
         THEN Put(row, "class", normalize_academic_year(value))
    ELSE IF (Contains(label, k_major) \/ Contains(label, k_academic))
               /\ Get(row, "major") = Empty
         THEN Put(row, "major", value)
    ELSE IF Contains(label, k_hometown) /\ Get(row, "hometown") = Empty
         THEN EnhSetHometown(row, value)
    ELSE IF (Contains(label, k_high_school) \/ Contains(label, k_hs))
               /\ Get(row, "high_school") = Empty
         THEN Put(row, "high_school", value)
    ELSE IF (Contains(label, k_previous_school) \/ Contains(label, k_last_school)
               \/ Contains(label, k_transfer)) /\ Get(row, "previous_school") = Empty
         THEN Put(row, "previous_school", value)
    ELSE row

\* one dt/dd pair
EnhDlField(row, label, value) ==
    IF value = Empty \/ value = Dash THEN row
    ELSE IF (Contains(label, k_position) \/ Contains(label, k_pos))
               /\ Get(row, "position") = Empty
         THEN Put(row, "position", extract_position(value))
    ELSE IF (Contains(label, k_height) \/ Contains(label, k_ht))
               /\ Get(row, "height") = Empty
         THEN Put(row, "height", OrElse(extract_height(value), value))
    ELSE IF (Contains(label, k_class) \/ Contains(label, k_year)
               \/ Contains(label, k_eligibility)) /\ Get(row, "class") = Empty
         THEN Put(row, "class", normalize_academic_year(value))
    ELSE IF (Contains(label, k_major) \/ Contains(label, k_academic))
               /\ Get(row, "major") = Empty
         THEN Put(row, "major", value)
    ELSE IF Contains(label, k_hometown) /\ Get(row, "hometown") = Empty
         THEN EnhSetHometown(row, value)
    ELSE IF (Contains(label, k_high_school) \/ Contains(label, k_hs))
               /\ Get(row, "high_school") = Empty
         THEN Put(row, "high_school", value)
    ELSE IF (Contains(label, k_previous_school) \/ Contains(label, k_last_school)
               \/ Contains(label, k_transfer)) /\ Get(row, "previous_school") = Empty
         THEN Put(row, "previous_school", value)
    ELSE row

\* one row of a detail table
EnhTableField(row, label, value) ==
    IF value = Empty \/ value = Dash THEN row
    ELSE IF Contains(label, k_position) /\ Get(row, "position") = Empty
         THEN Put(row, "position", extract_position(value))
    ELSE IF Contains(label, k_height) /\ Get(row, "height") = Empty
         THEN Put(row, "height", OrElse(extract_height(value), value))
    ELSE IF (Contains(label, k_class) \/ Contains(label, k_year)) /\ Get(row, "class") = Empty
         THEN Put(row, "class", normalize_academic_year(value))
    ELSE IF Contains(label, k_major) /\ Get(row, "major") = Empty
         THEN Put(row, "major", value)
    ELSE IF Contains(label, k_hometown) /\ Get(row, "hometown") = Empty
         THEN EnhSetHometown(row, value)
    ELSE IF Contains(label, k_high_school) /\ Get(row, "high_school") = Empty
         THEN Put(row, "high_school", value)
    ELSE IF Contains(label, k_previous_school) /\ Get(row, "previous_school") = Empty
         THEN Put(row, "previous_school", value)
    ELSE row

RECURSIVE EnhBioPass(_, _)
EnhBioPass(row, items) ==
    IF items = << >> THEN row
    ELSE LET item == Head(items)
             next == IF item.has_label /\ item.has_value
                     THEN EnhBioField(row, Lower(clean_text(item.label)), clean_text(item.value))
                     ELSE row
         IN  EnhBioPass(next, Tail(items))

RECURSIVE EnhDlPass(_, _, _)
EnhDlPass(row, dts, dds) ==
    IF dts = << >> \/ dds = << >> THEN row
    ELSE EnhDlPass(EnhDlField(row, Lower(clean_text(Head(dts))), clean_text(Head(dds))),
                   Tail(dts), Tail(dds))

RECURSIVE EnhRowsPass(_, _)
EnhRowsPass(row, rows) ==
    IF rows = << >> THEN row
    ELSE LET cells == Head(rows)
             next == IF Len(cells) >= 2
                     THEN EnhTableField(row, Lower(clean_text(cells[1])), clean_text(cells[2]))
                     ELSE row
         IN  EnhRowsPass(next, Tail(rows))

RECURSIVE EnhTablesPass(_, _)
EnhTablesPass(row, tables) ==
    IF tables = << >> THEN row
    ELSE EnhTablesPass(EnhRowsPass(row, Head(tables)), Tail(tables))

EnhParse(row, page) ==
    EnhTablesPass(EnhDlPass(EnhBioPass(row, page.bio), page.dl.dts, page.dl.dds),
                  page.tables)

\* has_data = any([position, height, class, hometown])
HasData(row) ==
    \/ Get(row, "position") # Empty
    \/ Get(row, "height") # Empty
    \/ Get(row, "class") # Empty
    \/ Get(row, "hometown") # Empty

\* whether scrape_player_profile issues its request
EnhFetchAttempted(row, force) ==
    /\ Strip(Get(row, "url")) # Empty
    /\ (force \/ ~HasData(row))

\* the enhancer without its has_data guard
scrape_player_profile_unguarded(row, force, response) ==
    IF Strip(Get(row, "url")) = Empty THEN row
    ELSE IF response.raises THEN row
    ELSE IF response.status # 200 THEN row
    ELSE IF response.parse_raises THEN row
    ELSE EnhParse(row, response.page)

scrape_player_profile(row, force, response) ==
    IF Strip(Get(row, "url")) = Empty THEN row
    ELSE IF ~force /\ HasData(row) THEN row
    ELSE IF response.raises THEN row
    ELSE IF response.status # 200 THEN row
    ELSE IF response.parse_raises THEN row
    ELSE EnhParse(row, response.page)

(***************************************************************************)
(* ProfileEnhancer.enhance_csv                                             *)
(*                                                                         *)
(* The input file is its header, fieldnames, and its rows, each a function *)
(* from the columns to the texts of the cells, as csv.DictReader reads a   *)
(* file whose rows have as many cells as the header. Each entry pairs a    *)
(* row with the response of its profile page. The result is what the       *)
(* output file holds: [raised, fieldnames, rows].                          *)
(***************************************************************************)
\* rows = [r for r in rows if r.get('team', '').lower() == team_filter.lower()]
FilterTeam(entries, team_filter) ==
    IF team_filter = Empty THEN entries
    ELSE SelectSeq(entries, LAMBDA e : Lower(Get(e.row, "team")) = Lower(team_filter))

\* DictWriter._dict_to_list: the cells of a row in the order of the header, ''
\* for a column the row lacks
WrittenRow(fieldnames, row) == [c \in Range(fieldnames) |-> Get(row, c)]

\* the rows DictWriter refuses: 'dict contains fields not in fieldnames'
RefusedRows(fieldnames, rows) ==
    {i \in DOMAIN rows : (DOMAIN rows[i]) \ Range(fieldnames) # {}}

\* writer.writeheader(); writer.writerows(rows): the rows before the first
\* refused row reach the file, then ValueError leaves enhance_csv
WriteRows(fieldnames, rows) ==
    LET refused == RefusedRows(fieldnames, rows)
        n == IF refused = {} THEN Len(rows)
             ELSE Min(refused) - 1
    IN  [raised |-> refused # {}, fieldnames |-> fieldnames,
         rows |-> [i \in 1..n |-> WrittenRow(fieldnames, rows[i])]]

enhance_csv(fieldnames, entries, force, team_filter) ==
    LET kept == FilterTeam(entries, team_filter)
    IN  WriteRows(fieldnames,
                  [i \in DOMAIN kept |->
                      scrape_player_profile(kept[i].row, force, kept[i].response)])

(***************************************************************************)
(* StandardScraper._extract_players and _extract_players_from_table        *)
(*                                                                         *)
(* A roster page is [items, tables, raising]. items are the li containers, *)
(* each [has_jersey, jersey, name_kind, name, href, meta]: name_kind is    *)
(* "none" (no h3 or h2), "text" (a heading without a link) or "link" (a    *)
(* heading with a link to href); meta is the sequence of custom-field      *)
(* divs, each [has_label, label, has_value, value]. tables are the table   *)
(* elements, each [sidearm, has_thead, thead_rows, has_tbody, body_rows]:  *)
(* thead_rows are the tr inside the thead, body_rows the other tr (inside  *)
(* the tbody when there is one). A row is a sequence of cells              *)
(* [text, has_link, href]; the link of a cell holds the cell's text.       *)
(* raising is the set of the containers (item-list shape) or of the rows    *)
(* of tbody.find_all('tr') (table shape), by position, in whose try block   *)
(* a statement raises an exception.                                         *)
(***************************************************************************)
s_http == <<"h","t","t","p">>
s_https == <<"h","t","t","p","s",":","/","/">>

\* tldextract.extract(base_url), joined as subdomain.domain.suffix: the host
\* of a URL of the form scheme://host/path
DomainOf(base_url) ==
    LET k == Min({i \in 1..(Len(base_url) + 1) :
                     i = Len(base_url) + 1 \/ Slice(base_url, i, i + 2) = << ":", "/", "/" >>})
        h == IF k > Len(base_url) THEN 1 ELSE k + 3
    IN  SubSeq(base_url, h, SkipUntil(base_url, h, {"/"}) - 1)

\* the absolute profile URL of a link
ProfileUrl(domain, rel_url) ==
    IF StartsWith(rel_url, s_http) THEN rel_url
    ELSE IF StartsWith(rel_url, << "/" >>) THEN s_https \o domain \o rel_url
    ELSE s_https \o domain \o << "/" >> \o rel_url

\* the local variables position, year, hometown, high_school, height of one item
NoMeta == [position |-> Empty, year |-> Empty, hometown |-> Empty,
           high_school |-> Empty, height |-> Empty]

\* one custom field of an item: every branch assigns, whatever the variable holds
ItemMetaField(m, label, value) ==
    IF Contains(label, k_position) \/ Contains(label, k_pos)
    THEN [m EXCEPT !.position = extract_position(value)]
    ELSE IF Contains(label, k_class) \/ Contains(label, k_year)
    THEN [m EXCEPT !.year = normalize_academic_year(value)]
    ELSE IF Contains(label, k_hometown)
    THEN LET parts == extract_hometown_parts(value)
         IN  [m EXCEPT !.hometown = parts[1],
                       !.high_school = IF parts[2] # Empty THEN parts[2] ELSE @]
    ELSE IF Contains(label, k_high_school)
    THEN [m EXCEPT !.high_school = value]
    ELSE IF Contains(label, k_height)
    THEN [m EXCEPT !.height = extract_height(value)]
    ELSE m

\* for meta in meta_fields
RECURSIVE ItemMetaPass(_, _)
ItemMetaPass(m, meta_fields) ==
    IF meta_fields = << >> THEN m
    ELSE LET meta == Head(meta_fields)
             next == IF meta.has_label /\ meta.has_value
                     THEN ItemMetaField(m, Lower(clean_text(meta.label)), clean_text(meta.value))
                     ELSE m
         IN  ItemMetaPass(next, Tail(meta_fields))

\* the Player created from one item, before the profile pass
ItemPlayer(item, team_id, team_name, season, division, domain) ==
    LET jersey == IF item.has_jersey THEN clean_text(item.jersey) ELSE Empty
        name == IF item.name_kind = "none" THEN Empty ELSE clean_text(item.name)
        profile_url == IF item.name_kind = "link" THEN ProfileUrl(domain, item.href) ELSE Empty
        m == ItemMetaPass(NoMeta, item.meta)
    IN  NewPlayer(team_id, team_name, season, division, name, jersey, m.position,
                  m.height, m.year, m.hometown, m.high_school, profile_url)

\* what one container or row gives: the Player as created (primary), whether
\* its profile is fetched, and the Player that is appended
Enriched(primary, scrape_profiles, response) ==
    [primary |-> primary,
     fetched |-> scrape_profiles /\ primary.url # Empty /\ ProfileFetchAttempted(primary),
     player  |-> IF scrape_profiles /\ primary.url # Empty
                 THEN _scrape_player_profile(primary, response) ELSE primary]

\* the first header that holds one of the keys (0 for None)
ColumnIndex(headers, keys) ==
    LET hit == {i \in DOMAIN headers : \E k \in keys : Contains(headers[i], k)}
    IN  IF hit = {} THEN 0 ELSE Min(hit)

\* the cells of the header row: those of the thead, else those of the first tr
HeaderCells(table) ==
    LET Cat[i \in 0..Len(table.thead_rows)] ==
            IF i = 0 THEN << >> ELSE Cat[i - 1] \o table.thead_rows[i]
    IN  IF table.has_thead THEN Cat[Len(table.thead_rows)]
        ELSE Head(table.body_rows)

\* tbody.find_all('tr') with tbody = table.find('tbody') or table
TableRows(table) ==
    IF table.has_tbody THEN table.body_rows ELSE table.thead_rows \o table.body_rows

\* the Player created from one row of at least two cells
RowPlayer(cols, headers, team_id, team_name, season, division, domain) ==
    LET name_idx == ColumnIndex(headers, {k_name})
        jersey_idx == ColumnIndex(headers, {<< "#" >>, k_number, k_jersey})
        pos_idx == ColumnIndex(headers, {k_pos})
        year_idx == ColumnIndex(headers, {k_year, k_class})
        height_idx == ColumnIndex(headers, {k_height, k_ht})
        hometown_idx == ColumnIndex(headers, {k_hometown})
        hs_idx == ColumnIndex(headers, {k_high_school, k_hs})
        Has(idx) == idx # 0 /\ idx <= Len(cols)
        Text(idx) == clean_text(cols[idx].text)
        name == IF Has(name_idx) THEN Text(name_idx) ELSE Empty
        profile_url == IF Has(name_idx) /\ cols[name_idx].has_link
                       THEN ProfileUrl(domain, cols[name_idx].href) ELSE Empty
        jersey == IF Has(jersey_idx)
                  THEN OrElse(extract_jersey_number(Text(jersey_idx)), Text(jersey_idx))
                  ELSE Empty
        position == IF Has(pos_idx) THEN extract_position(Text(pos_idx)) ELSE Empty
        year == IF Has(year_idx) THEN normalize_academic_year(Text(year_idx)) ELSE Empty
        height == IF Has(height_idx)
                  THEN OrElse(extract_height(Text(height_idx)), Text(height_idx)) ELSE Empty
        parts == IF Has(hometown_idx) THEN extract_hometown_parts(Text(hometown_idx))
                 ELSE << Empty, Empty >>
        high_school == IF Has(hs_idx) THEN Text(hs_idx) ELSE parts[2]
    IN  NewPlayer(team_id, team_name, season, division, name, jersey, position,
                  height, year, parts[1], high_school, profile_url)

\* the loop left at the first container or row that raises
ParsedBeforeFirstFailure(html, n) == \A m \in 1..n : m \notin html.raising

\* whether the try block of container or row n runs to players.append: the
\* except clause of the loop passes over a container or row that raises
Parsed(html, n) == n \notin html.raising

\* the outcomes of the rows after the first, those of fewer than two cells
\* skipped; responses[n] answers the profile request of row n
_extract_players_from_table(html, team_id, team_name, season, division, base_url, scrape_profiles, responses) ==
    LET sidearm == {i \in DOMAIN html.tables : html.tables[i].sidearm}
        table == IF sidearm # {} THEN html.tables[Min(sidearm)] ELSE html.tables[1]
        headers == [i \in DOMAIN HeaderCells(table) |->
                       Lower(clean_text(HeaderCells(table)[i].text))]
        rows == TableRows(table)
        Out[n \in 1..Len(rows)] ==
            LET before == IF n = 1 THEN << >> ELSE Out[n - 1]
            IN  IF n = 1 \/ Len(rows[n]) < 2 \/ ~Parsed(html, n) THEN before
                ELSE Append(before,
                            Enriched(RowPlayer(rows[n], headers, team_id, team_name, season,
                                               division, DomainOf(base_url)),
                                     scrape_profiles, responses[n]))
    IN  IF html.tables = << >> THEN << >>
        ELSE IF ~table.has_thead /\ table.body_rows = << >> THEN << >>
        ELSE IF rows = << >> THEN << >>
        ELSE Out[Len(rows)]

\* the page pass with the fallback taken when the item-list shape gives no
\* record, and not only when the page has no container
_extract_players_or_table(html, team_id, team_name, season, division, base_url, scrape_profiles, responses) ==
    LET Out[n \in 0..Len(html.items)] ==
            IF n = 0 THEN << >>
            ELSE IF ~Parsed(html, n) THEN Out[n - 1]
            ELSE Append(Out[n - 1],
                        Enriched(ItemPlayer(html.items[n], team_id, team_name, season,
                                            division, DomainOf(base_url)),
                                 scrape_profiles, responses[n]))
    IN  IF Out[Len(html.items)] = << >>
        THEN _extract_players_from_table(html, team_id, team_name, season, division, base_url,
                                         scrape_profiles, responses)
        ELSE Out[Len(html.items)]

\* the outcomes of the containers, in page order; responses[n] answers the
\* profile request of container n. Without containers the table shape is used.
_extract_players(html, team_id, team_name, season, division, base_url, scrape_profiles, responses) ==
    IF html.items = << >>
    THEN _extract_players_from_table(html, team_id, team_name, season, division, base_url,
                                     scrape_profiles, responses)
    ELSE LET Out[n \in 0..Len(html.items)] ==
                 IF n = 0 THEN << >>
                 ELSE IF ~Parsed(html, n) THEN Out[n - 1]
                 ELSE Append(Out[n - 1],
                             Enriched(ItemPlayer(html.items[n], team_id, team_name, season,
                                                 division, DomainOf(base_url)),
                                      scrape_profiles, responses[n]))
         IN  Out[Len(html.items)]

\* the players of a sequence of outcomes
PlayersOf(outcomes) == [n \in DOMAIN outcomes |-> outcomes[n].player]

(***************************************************************************)
(* URLBuilder, TeamConfig and StandardScraper.scrape_team                  *)
(***************************************************************************)
s_roster == <<"/","r","o","s","t","e","r">>
s_roster_aspx == <<"/","r","o","s","t","e","r",".","a","s","p","x">>
s_sports_fhockey == <<"/","s","p","o","r","t","s","/","f","h","o","c","k","e","y">>
s_sports_field_hockey == <<"/","s","p","o","r","t","s","/","f","i","e","l","d","-","h","o","c","k","e","y">>

\* the keys of TEAM_CONFIGS; both entries hold url_format 'fhockey'
TEAM_CONFIGS == {312, 519}

get_url_format(team_id, team_url) ==
    IF team_id \in TEAM_CONFIGS THEN "fhockey"
    ELSE IF team_url # Empty /\ Contains(team_url, s_sports_fhockey) THEN "fhockey"
    ELSE IF team_url # Empty /\ Contains(team_url, s_sports_field_hockey) THEN "default"
    ELSE "default"

\* the builder with an unknown format given the URL without the season
build_roster_url_by_format(base_url, season, url_format) ==
    IF url_format = "default" THEN RStripSlash(base_url) \o s_roster \o << "/" >> \o season
    ELSE IF url_format = "fhockey" THEN RStripSlash(base_url) \o s_roster \o << "/" >> \o season
    ELSE RStripSlash(base_url) \o s_roster

build_roster_url(base_url, season, url_format) ==
    IF url_format = "default" THEN RStripSlash(base_url) \o s_roster \o << "/" >> \o season
    ELSE IF url_format = "fhockey" THEN RStripSlash(base_url) \o s_roster \o << "/" >> \o season
    ELSE RStripSlash(base_url) \o s_roster \o << "/" >> \o season

\* what scrape_team returns and what it did: the players, the roster URLs it
\* requested, the response whose body it parsed (0 when none) and whether an
\* exception left the function, with its message: both except clauses return
\* [], so none does
PassResult(outcomes, requests, parsed) ==
    [players |-> PlayersOf(outcomes), outcomes |-> outcomes, requests |-> requests,
     parsed |-> parsed, raised |-> FALSE, error |-> ""]

\* the part of scrape_team after the requests: response number n is the last one
ParseRoster(n, requests, responses, team, season, division, scrape_profiles, profiles) ==
    IF responses[n].status # 200 THEN PassResult(<< >>, requests, 0)
    ELSE IF responses[n].parse_raises THEN PassResult(<< >>, requests, 0)
    ELSE PassResult(_extract_players(responses[n].body, team.ncaa_id, team.team, season,
                                     division, team.url, scrape_profiles, profiles),
                    requests, n)

\* scrape_team without the request of the .aspx URL: a second response that is
\* not 200 ends the chain
scrape_team_two_urls(team, season, division, scrape_profiles, responses, profiles) ==
    LET url1 == build_roster_url(team.url, season, get_url_format(team.ncaa_id, team.url))
        url2 == RStripSlash(team.url) \o s_roster
        last == IF responses[1].raises \/ responses[1].status # 404 THEN 1 ELSE 2
        requests == SubSeq(<< url1, url2 >>, 1, last)
    IN  IF responses[last].raises THEN PassResult(<< >>, requests, 0)
        ELSE ParseRoster(last, requests, responses, team, season, division,
                         scrape_profiles, profiles)

\* responses[n] answers the n-th roster request, profiles[n] the profile request
\* of the n-th container or row. A response is [raises, status, parse_raises,
\* body]. The chain of requests (lines 459-476) ends with request number last:
\* the response variable then holds responses[last], the one whose status is
\* tested and whose content is parsed; a request that raises ends the chain in
\* the except clause. The visit of the base domain before the first request
\* changes nothing (its exceptions are passed over) and is left out.
scrape_team(team, season, division, scrape_profiles, responses, profiles) ==
    LET url1 == build_roster_url(team.url, season, get_url_format(team.ncaa_id, team.url))
        url2 == RStripSlash(team.url) \o s_roster
        url3 == RStripSlash(team.url) \o s_roster_aspx
        last == IF responses[1].raises \/ responses[1].status # 404 THEN 1
                ELSE IF responses[2].raises \/ responses[2].status = 200 THEN 2
                ELSE 3
        requests == SubSeq(<< url1, url2, url3 >>, 1, last)
    IN  IF responses[last].raises THEN PassResult(<< >>, requests, 0)
        ELSE ParseRoster(last, requests, responses, team, season, division,
                         scrape_profiles, profiles)

(***************************************************************************)
(* Bounds and the inputs the passes are run on                             *)
(***************************************************************************)
\* labelled fields of one container, bio block, definition list or detail table
MaxFields == 2
\* rows of a roster table after its header
MaxRows == 2
\* teams of one run
MaxTeams == 2
\* characters of a text handed to extract_position on its own
MaxLen == 3

SeqsUpTo(S, n) == UNION {[1..k -> S] : k \in 0..n}

t_Position == <<"P","o","s","i","t","i","o","n">>
t_Pos == <<" ","P","o","s",".","\n">>
t_Height == <<"H","e","i","g","h","t">>
t_Class == <<"C","l","a","s","s">>
t_Major == <<"M","a","j","o","r">>
t_Hometown == <<"H","o","m","e","t","o","w","n">>
t_HighSchool == <<"H","i","g","h"," ","S","c","h","o","o","l">>
t_PreviousSchool == <<"P","r","e","v","i","o","u","s"," ","S","c","h","o","o","l">>
t_AcademicYear == <<"A","c","a","d","e","m","i","c"," ","Y","e","a","r">>
t_Name == <<"N","a","m","e">>
t_Number == <<"#">>
t_Forward == <<"F","o","r","w","a","r","d">>
t_Back == <<" ","B","a","c","k"," ">>
t_Mid == <<"M","i","d","f","i","e","l","d">>
t_Libero == <<"L","i","b","e","r","o">>
t_Jr == <<"J","r",".">>
t_Biology == <<"B","i","o","l","o","g","y">>
t_Tall == <<"t","a","l","l">>
t_FiveSix == <<"5","'","6","\"">>
t_SixTwo == <<"6","-","2">>
t_Boston == <<"B","o","s","t","o","n",","," ","M","A"," ","/"," ","C","e","n","t","r","a","l"," ","H","S">>
t_Dover == <<"D","o","v","e","r",","," ","N","H"," ","/"," ","S","t","."," ","P","a","u","l","'","s">>
t_Austin == <<"A","u","s","t","i","n",","," ","T","X">>
t_OtherHS == <<"O","t","h","e","r"," ","H","S">>
t_StateU == <<"S","t","a","t","e"," ","U">>
t_AnnLee == <<"A","n","n"," ","L","e","e">>
t_BoDay == <<"B","o"," "," ","D","a","y">>
t_Twelve == <<"1","2">>
t_Season == <<"2","0","2","5">>
t_Href1 == <<"/","r","/","1">>
t_Href2 == <<"r","/","2">>

\* the texts extract_position is run on: every text of at most MaxLen characters
\* of a small alphabet, and the sample words
PositionAlphabet == {"G", "g", "K", KelvinSign, "M", "x", " ", "/"}

PositionTexts ==
    SeqsUpTo(PositionAlphabet, MaxLen)
    \cup {t_Forward, t_Back, t_Mid, t_Libero, t_Jr, Dash, w_KEEPER, w_ATTACKER,
          <<"G","o","a","l",KelvinSign,"e","e","p","e","r">>}

\* every way of writing a word in upper-case and lower-case letters
Casings(word) ==
    {[i \in 1..Len(word) |-> IF low[i] THEN ToLowerChar(word[i]) ELSE word[i]] :
        low \in [1..Len(word) -> BOOLEAN]}

\* every casing of every token of the position pattern
TokenCasings == UNION {Casings(PositionTokens[k]) : k \in DOMAIN PositionTokens}

\* the texts normalize_academic_year is run on: the keys of the table, every
\* text of at most MaxLen characters of a small alphabet, and words of no key
YearAlphabet == {"J", "R", "r", ".", "-", " "}

YearTexts ==
    {year_map[k][1] : k \in DOMAIN year_map}
    \cup SeqsUpTo(YearAlphabet, MaxLen)
    \cup {<<"U","n","k","n","o","w","n">>, Junior, RedshirtJunior, Dash, t_Forward,
          <<"j","r",".">>, <<"f","r">>, <<"S","R",".">>, <<" ","J","r",".">>,
          <<"J","r","."," ">>, <<"r","-","f","r">>, <<"f","i","r","s","t">>}

\* the texts extract_hometown_parts is run on
HometownAlphabet == {"a", "b", "/", " "}

HometownTexts ==
    SeqsUpTo(HometownAlphabet, MaxLen)
    \cup {t_Boston, t_Dover, t_Austin,
          <<"/"," ","C","e","n","t","r","a","l"," ","H","S">>,
          <<"B","o","s","t","o","n"," ","/">>,
          <<"a"," ","/"," ","b"," ","/"," ","c">>, <<"a","/","b","/","c">>}

\* the texts clean_text is run on: every text of at most MaxLen + 2 characters
\* of a letter and three kinds of whitespace, and the sample texts
CleanAlphabet == {"a", " ", "\n", "\t"}

CleanTexts ==
    SeqsUpTo(CleanAlphabet, MaxLen + 2)
    \cup {t_Pos, t_Back, t_BoDay, t_Boston, <<"\r","J","r","."," ","\r","\n"," ","x","\t">>}

\* the arguments of the URL builder: team ids with and without an entry in
\* TEAM_CONFIGS, base URLs of both template families, of neither, with and
\* without trailing slashes, and format values the builder knows and does not
UrlTeamIds == {312, 457}

UrlBases ==
    LET host == <<"h","t","t","p","s",":","/","/","a",".","e","d","u">>
    IN  {b \o s : b \in {host, host \o s_sports_fhockey, host \o s_sports_field_hockey,
                         host \o <<"/","f","h">>},
                 s \in SeqsUpTo({"/"}, MaxLen - 1)}
        \cup {Empty}

UrlSeasons == {t_Season, <<"2","0","2","4","-","2","5">>}

UrlFormats == {"default", "fhockey", "sidearm", ""}

\* the labels and values a labelled field is read with on its own
LabelTexts ==
    { t_Position, t_Pos, <<"P","O","S","I","T","I","O","N">>, t_Height, <<"H","t",".">>,
      t_Class, <<"Y","e","a","r">>, <<"E","l","i","g","i","b","i","l","i","t","y">>,
      t_Major, t_AcademicYear, <<"A","c","a","d","e","m","i","c","s">>, t_Hometown,
      <<"H","o","m","e","t","o","w","n"," ","/"," ","H","i","g","h"," ","S","c","h","o","o","l">>,
      t_HighSchool, <<"H","S">>, t_PreviousSchool, <<"L","a","s","t"," ","S","c","h","o","o","l">>,
      <<"T","r","a","n","s","f","e","r">>, <<"H","e","i","g","h","t"," ","/"," ","C","l","a","s","s">>,
      t_Name, <<"W","e","i","g","h","t">> }

LabelValues == {t_Forward, t_FiveSix, t_Tall, t_Jr, t_Biology, t_Austin, t_OtherHS, t_StateU}

Field(label, value) == [has_label |-> TRUE, label |-> label, has_value |-> TRUE, value |-> value]

\* the teams of the team list: rows of teams.csv as load_teams returns them
AllTeams == <<
    [team |-> <<"U","N","C">>, ncaa_id |-> 457, url |-> <<"h","t","t","p","s",":","/","/","a",".","e","d","u","/","s","p","o","r","t","s","/","f","i","e","l","d","-","h","o","c","k","e","y">>],
    [team |-> <<"I","o","w","a">>, ncaa_id |-> 312, url |-> <<"h","t","t","p","s",":","/","/","b",".","e","d","u","/","s","p","o","r","t","s","/","f","h","o","c","k","e","y","/">>],
    [team |-> <<"Y","a","l","e">>, ncaa_id |-> 813, url |-> <<"h","t","t","p","s",":","/","/","c",".","e","d","u","/","f","h">>],
    [team |-> <<"O","h","i","o">>, ncaa_id |-> 519, url |-> <<"h","t","t","p","s",":","/","/","d",".","e","d","u","/","s","p","o","r","t","s","/","f","h","o","c","k","e","y">>] >>

\* ---- profile pages and responses ----
NoDl == [dts |-> << >>, dds |-> << >>]
NoProfilePage == [bio |-> << >>, dl |-> NoDl, tables |-> << >>]

ProfileFields ==
    { Field(t_Position, t_Forward), Field(t_Pos, Dash), Field(t_Height, t_Tall),
      Field(t_Class, t_Jr), Field(t_Class, Empty), Field(t_Major, t_Biology),
      Field(t_AcademicYear, t_Jr), Field(t_Hometown, t_Boston), Field(t_HighSchool, t_OtherHS),
      Field(t_PreviousSchool, t_StateU) }

BioPage(fields) == [bio |-> fields, dl |-> NoDl, tables |-> << >>]
DlPage(fields) ==
    [bio |-> << >>,
     dl |-> [dts |-> [i \in DOMAIN fields |-> fields[i].label],
             dds |-> [i \in DOMAIN fields |-> fields[i].value]],
     tables |-> << >>]
TablePage(fields) ==
    [bio |-> << >>, dl |-> NoDl,
     tables |-> << [i \in DOMAIN fields |-> << fields[i].label, fields[i].value >>] >>]

ProfilePages ==
    LET fs == SeqsUpTo(ProfileFields, MaxFields)
    IN  {BioPage(f) : f \in fs} \cup {DlPage(f) : f \in fs} \cup {TablePage(f) : f \in fs}
        \cup { [bio |-> << Field(t_Class, t_Jr) >>,
                dl |-> [dts |-> << t_Position, t_Class >>, dds |-> << t_Forward >>],
                tables |-> << << << t_Hometown >> >>, << << t_Hometown, t_Boston >> >> >>] }

Ok(page) == [raises |-> FALSE, status |-> 200, parse_raises |-> FALSE, page |-> page]
NotFound == [raises |-> FALSE, status |-> 404, parse_raises |-> FALSE, page |-> NoProfilePage]
Raised == [raises |-> TRUE, status |-> 0, parse_raises |-> FALSE, page |-> NoProfilePage]

\* an error response whose body holds labelled fields, and a 200 response whose
\* content the parser rejects
ErrorWithBody ==
    [raises |-> FALSE, status |-> 503, parse_raises |-> FALSE,
     page |-> BioPage(<< Field(t_Position, t_Forward), Field(t_Major, t_Biology) >>)]
Unparsable ==
    [raises |-> FALSE, status |-> 200, parse_raises |-> TRUE,
     page |-> BioPage(<< Field(t_Position, t_Forward), Field(t_Major, t_Biology) >>)]

ProfileResponses ==
    {NotFound, Raised, ErrorWithBody, Unparsable} \cup {Ok(p) : p \in ProfilePages}

\* the pages of a record enriched twice: one labelled field each, in each of
\* the three shapes, with two values for the position and for the hometown
PairFields ==
    ProfileFields \cup {Field(t_Pos, t_Back), Field(t_Hometown, t_Austin)}

PairPages ==
    {BioPage(<< f >>) : f \in PairFields} \cup {DlPage(<< f >>) : f \in PairFields}
        \cup {TablePage(<< f >>) : f \in PairFields}

\* ---- players and rows handed to the profile pass ----
BlankPlayer == NewPlayer(457, AllTeams[1].team, t_Season, Empty, t_AnnLee, t_Twelve, Empty, Empty, Empty, Empty, Empty, <<"h","t","t","p","s",":","/","/","a",".","e","d","u","/","r","/","1">>)

SamplePlayers ==
    { BlankPlayer,
      [BlankPlayer EXCEPT !.url = Empty],
      [BlankPlayer EXCEPT !.position = w_D],
      [BlankPlayer EXCEPT !.hometown = t_Austin],
      [BlankPlayer EXCEPT !.high_school = t_OtherHS, !.year = Junior],
      [BlankPlayer EXCEPT !.position = w_GK, !.height = t_SixTwo, !.year = Senior,
                          !.major = t_Biology, !.hometown = t_Austin,
                          !.high_school = t_OtherHS, !.previous_school = t_StateU] }

\* a row of a roster CSV for a player, with the columns the enhancer reads
RowOf(p) ==
    [name |-> p.name, team |-> p.team, url |-> p.url, position |-> p.position,
     height |-> p.height, class |-> p.year, major |-> p.major, hometown |-> p.hometown,
     high_school |-> p.high_school, previous_school |-> p.previous_school]

SampleRows ==
    { RowOf(BlankPlayer),
      RowOf([BlankPlayer EXCEPT !.position = w_D]),
      RowOf([BlankPlayer EXCEPT !.hometown = t_Austin, !.high_school = t_OtherHS]),
      [name |-> t_AnnLee, team |-> AllTeams[1].team, url |-> BlankPlayer.url],
      [name |-> t_AnnLee, team |-> AllTeams[1].team, url |-> << " " >>,
       major |-> t_Biology] }

\* ---- roster CSV files handed to the enhancer ----
CsvHeaders ==
    { << "name", "team", "url" >>,
      << "name", "team", "position", "class", "url" >>,
      << "team", "name", "position", "height", "class", "major", "hometown",
         "high_school", "previous_school", "url" >> }

\* the cells of a player under a header
CsvRow(fieldnames, p) == [c \in Range(fieldnames) |-> RowOf(p)[c]]

CsvPlayers ==
    { BlankPlayer,
      [BlankPlayer EXCEPT !.team = AllTeams[2].team, !.name = t_BoDay, !.position = w_D],
      [BlankPlayer EXCEPT !.year = Senior, !.major = t_Biology] }

CsvResponses ==
    { NotFound, Ok(BioPage(<< Field(t_Major, t_Biology) >>)),
      Ok(BioPage(<< Field(t_Position, t_Forward), Field(t_Class, t_Jr) >>)) }

CsvFiles ==
    {[fieldnames |-> h, entries |-> [i \in DOMAIN ps |-> [row |-> CsvRow(h, ps[i]), response |-> r]]] :
        h \in CsvHeaders, ps \in SeqsUpTo(CsvPlayers, MaxRows), r \in CsvResponses}

t_iowa == <<"i","o","w","a">>

\* ---- roster pages ----
ItemFields ==
    { Field(t_Position, t_Forward), Field(t_Pos, t_Back), Field(t_Position, Dash),
      Field(t_Class, t_Jr), Field(t_Class, Dash), Field(t_Class, Empty),
      Field(t_Hometown, t_Dover), Field(t_HighSchool, t_OtherHS),
      Field(t_Height, t_SixTwo), Field(t_Height, t_Tall) }

Item(name_kind, name, href, meta) ==
    [has_jersey |-> name_kind # "none", jersey |-> IF name_kind # "none" THEN t_Twelve ELSE Empty,
     name_kind |-> name_kind, name |-> name, href |-> href, meta |-> meta]

\* a container per way of naming the player, with every sequence of fields
SampleItems ==
    {Item(n[1], n[2], n[3], meta) :
        n \in { << "link", t_AnnLee, t_Href1 >>, << "link", t_BoDay, t_Href2 >>,
                << "text", t_BoDay, Empty >>, << "none", Empty, Empty >> },
        meta \in SeqsUpTo(ItemFields, MaxFields)}

Cell(text) == [text |-> text, has_link |-> FALSE, href |-> Empty]
LinkCell(text, href) == [text |-> text, has_link |-> TRUE, href |-> href]

SampleHeaders ==
    { << Cell(t_Number), Cell(t_Name), Cell(t_Pos), Cell(t_Class), Cell(t_Height),
         Cell(t_Hometown), Cell(t_HighSchool) >>,
      << Cell(t_Number), Cell(t_Name), Cell(t_Position), Cell(t_Class), Cell(t_Height),
         Cell(<<"H","o","m","e","t","o","w","n"," ","/"," ","H","i","g","h"," ","S","c","h","o","o","l">>) >>,
      << Cell(t_Number), Cell(<<"P","l","a","y","e","r">>), Cell(t_Pos) >> }

SampleTableRows ==
    { << Cell(t_Twelve), LinkCell(t_AnnLee, t_Href1), Cell(t_Forward), Cell(t_Jr),
         Cell(t_FiveSix), Cell(t_Boston), Cell(t_OtherHS) >>,
      << Cell(<<"N","o","."," ","7">>), Cell(t_BoDay), Cell(Dash), Cell(Dash), Cell(Dash), Cell(Dash),
         Cell(Dash) >>,
      << Cell(Empty), Cell(Empty), Cell(t_Libero), Cell(Empty), Cell(t_Tall) >>,
      << Cell(t_Twelve), Cell(t_AnnLee), Cell(<<"G", KelvinSign>>), Cell(t_Jr) >>,
      << Cell(t_AnnLee) >> }

\* a table whose header row is in a thead or is its first tr, with or without
\* a tbody around the other rows
Table(sidearm, has_thead, has_tbody, header, rows) ==
    [sidearm |-> sidearm, has_thead |-> has_thead,
     thead_rows |-> IF has_thead THEN << header >> ELSE << >>,
     has_tbody |-> has_tbody,
     body_rows |-> IF has_thead THEN rows ELSE << header >> \o rows]

ItemPage(items) == [items |-> items, tables |-> << >>, raising |-> {}]
TableOnlyPage(tables) == [items |-> << >>, tables |-> tables, raising |-> {}]
NoRosterPage == [items |-> << >>, tables |-> << >>, raising |-> {}]

\* the page of two players of the end-to-end example
TwoPlayerPage ==
    ItemPage(<< Item("link", t_AnnLee, t_Href1,
                     << Field(t_Position, t_Mid), Field(t_Hometown, t_Dover) >>),
                Item("text", t_BoDay, Empty, << >>) >>)

RosterPages ==
    {ItemPage(<< it >>) : it \in SampleItems}
    \cup {TableOnlyPage(<< Table(TRUE, th, tb, h, rows) >>) :
            th \in BOOLEAN, tb \in BOOLEAN, h \in SampleHeaders,
            rows \in SeqsUpTo(SampleTableRows, MaxRows)}
    \cup { NoRosterPage, TwoPlayerPage,
           TableOnlyPage(<< [sidearm |-> FALSE, has_thead |-> FALSE, thead_rows |-> << >>,
                             has_tbody |-> FALSE, body_rows |-> << >>] >>),
           [items |-> << Item("text", t_BoDay, Empty, << >>) >>,
            tables |-> << Table(TRUE, TRUE, TRUE, << Cell(t_Name), Cell(t_Pos) >>,
                                << << Cell(t_AnnLee), Cell(t_Forward) >>,
                                   << Cell(t_BoDay), Cell(t_Back) >> >>) >>,
            raising |-> {}] }

\* ---- one list of players in the two shapes of a roster page ----
\* what a roster says of a player: name, position, class, hometown
SamplePeople ==
    { [name |-> t_AnnLee, position |-> t_Forward, class |-> t_Jr, hometown |-> t_Boston],
      [name |-> t_BoDay, position |-> t_Back, class |-> Empty, hometown |-> t_Austin],
      [name |-> t_BoDay, position |-> t_Libero, class |-> Dash, hometown |-> t_Dover] }

\* the item-list page of a list of players: a container per player with the
\* name in its heading and one custom field per column
ItemPageOf(people) ==
    ItemPage([i \in DOMAIN people |->
                 Item("text", people[i].name, Empty,
                      << Field(t_Position, people[i].position),
                         Field(t_Class, people[i].class),
                         Field(t_Hometown, people[i].hometown) >>)])

\* the table page of the same list: a header row and one row per player
TablePageOf(people, has_thead, has_tbody) ==
    TableOnlyPage(<< Table(TRUE, has_thead, has_tbody,
                           << Cell(t_Name), Cell(t_Position), Cell(t_Class), Cell(t_Hometown) >>,
                           [i \in DOMAIN people |->
                               << Cell(people[i].name), Cell(people[i].position),
                                  Cell(people[i].class), Cell(people[i].hometown) >>]) >>)

\* ---- roster pages with containers or rows whose parse raises ----
FaultItems ==
    { Item("link", t_AnnLee, t_Href1, << Field(t_Position, t_Forward) >>),
      Item("text", t_BoDay, Empty, << Field(t_Class, t_Jr), Field(t_Hometown, t_Dover) >>) }

FaultHeader == << Cell(t_Number), Cell(t_Name), Cell(t_Pos), Cell(t_Class) >>

FaultRows ==
    { << Cell(t_Twelve), LinkCell(t_AnnLee, t_Href1), Cell(t_Forward), Cell(t_Jr) >>,
      << Cell(<<"7">>), Cell(t_BoDay), Cell(t_Back), Cell(Empty) >>,
      << Cell(t_BoDay) >> }

\* item-list pages, table pages, and pages that hold containers and a table
FaultPagesSound ==
    {ItemPage(its) : its \in SeqsUpTo(FaultItems, MaxRows + 1) \ {<< >>}}
    \cup {TableOnlyPage(<< Table(TRUE, th, tb, FaultHeader, rows) >>) :
            th \in BOOLEAN, tb \in BOOLEAN, rows \in SeqsUpTo(FaultRows, MaxRows)}
    \cup {[items |-> its,
           tables |-> << Table(TRUE, FALSE, FALSE, FaultHeader, rows) >>,
           raising |-> {}] :
            its \in SeqsUpTo(FaultItems, MaxRows) \ {<< >>},
            rows \in SeqsUpTo(FaultRows, 1) \ {<< >>}}

\* the containers or rows of a page that may ask for a profile
FaultSlots(page) ==
    IF page.items # << >> THEN Len(page.items) ELSE Len(TableRows(page.tables[1]))

\* every choice of the containers or rows that raise
FaultPages ==
    UNION {{[p EXCEPT !.raising = r] : r \in SUBSET (1..FaultSlots(p))} : p \in FaultPagesSound}

\* the answers to the profile requests of a roster page: one per container or row
RosterProfileResponses ==
    { NotFound,
      Ok(BioPage(<< Field(t_Position, t_Forward), Field(t_Class, t_Jr),
                    Field(t_Hometown, t_Boston), Field(t_Major, t_Biology) >>)) }

\* the containers or table rows of a page that may ask for a profile
PlayerSlots(page) ==
    IF page.items # << >> THEN Len(page.items)
    ELSE IF page.tables = << >> THEN 0
    ELSE Len(page.tables[1].thead_rows) + Len(page.tables[1].body_rows)

(***************************************************************************)
(* State                                                                   *)
(***************************************************************************)
VARIABLES
    pc,                 \* where the program is
    input,              \* the arguments of the pass that is run
    output,             \* what the pass returned
    teams_to_scrape,    \* scrape_teams: the team list after the limit
    idx,                \* scrape_teams: number of teams processed
    all_players,        \* scrape_teams: the players collected
    successful_teams,   \* RosterManager.successful_teams
    zero_player_teams,  \* RosterManager.zero_player_teams
    failed_teams,       \* RosterManager.failed_teams
    processed,          \* scrape_teams: the team ids handed to scrape_team, in call order
    last_pass,          \* what the last scrape_team call did
    files               \* the files of the output directory

vars == << pc, input, output, teams_to_scrape, idx, all_players, successful_teams,
           zero_player_teams, failed_teams, processed, last_pass, files >>

managerVars == << teams_to_scrape, idx, all_players, successful_teams, zero_player_teams,
                  failed_teams, processed, last_pass, files >>

\* a file of the output directory: absent, or written with a content
NoFile == [written |-> FALSE, content |-> << >>]
File(content) == [written |-> TRUE, content |-> content]
NoFiles == [json |-> NoFile, csv |-> NoFile, zero_players |-> NoFile, failed_teams |-> NoFile]

NoPass == [players |-> << >>, outcomes |-> << >>, requests |-> << >>, parsed |-> 0,
           raised |-> FALSE, error |-> "", responses |-> << >>, team |-> 0]

\* RosterManager.__init__
ManagerInit ==
    /\ teams_to_scrape = << >>
    /\ idx = 0
    /\ all_players = << >>
    /\ successful_teams = << >>
    /\ zero_player_teams = << >>
    /\ failed_teams = << >>
    /\ processed = << >>
    /\ last_pass = NoPass
    /\ files = NoFiles

(***************************************************************************)
(* The passes, each run on one input                                       *)
(***************************************************************************)
PassInputs ==
    {[kind |-> "roster", page |-> p, team |-> AllTeams[1], scrape_profiles |-> sp,
      profiles |-> [n \in 1..PlayerSlots(p) |-> r]] :
        p \in RosterPages, sp \in BOOLEAN, r \in RosterProfileResponses}
    \cup {[kind |-> "profile", player |-> p, response |-> r] :
            p \in SamplePlayers, r \in ProfileResponses}
    \cup {[kind |-> "enhance", row |-> w, force |-> f, response |-> r] :
            w \in SampleRows, f \in BOOLEAN, r \in ProfileResponses}
    \cup {[kind |-> "position", text |-> t] : t \in PositionTexts \cup TokenCasings}
    \cup {[kind |-> "year", text |-> t] : t \in YearTexts}
    \cup {[kind |-> "hometown", text |-> t] : t \in HometownTexts}

PassInit ==
    /\ pc = "ready"
    /\ input \in PassInputs
    /\ output = [kind |-> "none"]
    /\ ManagerInit

\* StandardScraper._extract_players on a parsed roster page
ExtractPlayers ==
    /\ pc = "ready"
    /\ input.kind = "roster"
    /\ output' = [kind |-> "roster",
                  outcomes |-> _extract_players(input.page, input.team.ncaa_id,
                                                input.team.team, t_Season, Empty,
                                                input.team.url, input.scrape_profiles,
                                                input.profiles)]
    /\ pc' = "done"
    /\ UNCHANGED << input, managerVars >>

\* StandardScraper._scrape_player_profile on a player
ScrapePlayerProfile ==
    /\ pc = "ready"
    /\ input.kind = "profile"
    /\ output' = [kind |-> "profile",
                  fetched |-> ProfileFetchAttempted(input.player),
                  player |-> _scrape_player_profile(input.player, input.response)]
    /\ pc' = "done"
    /\ UNCHANGED << input, managerVars >>

\* ProfileEnhancer.scrape_player_profile on a row
EnhanceRow ==
    /\ pc = "ready"
    /\ input.kind = "enhance"
    /\ output' = [kind |-> "enhance",
                  fetched |-> EnhFetchAttempted(input.row, input.force),
                  row |-> scrape_player_profile(input.row, input.force, input.response)]
    /\ pc' = "done"
    /\ UNCHANGED << input, managerVars >>

\* FieldExtractors.extract_position on a text
ExtractPosition ==
    /\ pc = "ready"
    /\ input.kind = "position"
    /\ output' = [kind |-> "position", position |-> extract_position(input.text)]
    /\ pc' = "done"
    /\ UNCHANGED << input, managerVars >>

\* FieldExtractors.normalize_academic_year on a text
NormalizeAcademicYear ==
    /\ pc = "ready"
    /\ input.kind = "year"
    /\ output' = [kind |-> "year", year |-> normalize_academic_year(input.text)]
    /\ pc' = "done"
    /\ UNCHANGED << input, managerVars >>

\* FieldExtractors.extract_hometown_parts on a text
ExtractHometownParts ==
    /\ pc = "ready"
    /\ input.kind = "hometown"
    /\ output' = [kind |-> "hometown", parts |-> extract_hometown_parts(input.text)]
    /\ pc' = "done"
    /\ UNCHANGED << input, managerVars >>

\* FieldExtractors.clean_text on a text, and on its own result
CleanText ==
    /\ pc = "ready"
    /\ input.kind = "clean"
    /\ \E once \in {clean_text(input.text)} :
          output' = [kind |-> "clean", once |-> once, twice |-> clean_text(once)]
    /\ pc' = "done"
    /\ UNCHANGED << input, managerVars >>

\* URLBuilder.build_roster_url with a given format, and as scrape_team calls
\* it: with the format TeamConfig.get_url_format resolves for the team
BuildRosterUrl ==
    /\ pc = "ready"
    /\ input.kind = "url"
    /\ \E resolved \in {get_url_format(input.team_id, input.base_url)} :
          output' = [kind |-> "url",
                     url |-> build_roster_url(input.base_url, input.season, input.url_format),
                     resolved |-> resolved,
                     roster_url |-> build_roster_url(input.base_url, input.season, resolved)]
    /\ pc' = "done"
    /\ UNCHANGED << input, managerVars >>

\* one labelled field read by the roster pass, as the custom field of a
\* container, and by the profile pass, as the bio item of the page of the same
\* player
ReadLabelledField ==
    /\ pc = "ready"
    /\ input.kind = "label"
    /\ output' = [kind |-> "label",
                  item |-> ItemPlayer(Item("text", t_AnnLee, Empty,
                                           << Field(input.label, input.value) >>),
                                      AllTeams[1].ncaa_id, AllTeams[1].team, t_Season, Empty,
                                      DomainOf(AllTeams[1].url)),
                  bio |-> ProfileBioPass([BlankPlayer EXCEPT !.url = Empty],
                                         << Field(input.label, input.value) >>)]
    /\ pc' = "done"
    /\ UNCHANGED << input, managerVars >>

\* the two implementations of the profile pass on one record and one page:
\* StandardScraper._scrape_player_profile on the Player, and
\* ProfileEnhancer.scrape_player_profile with force set on its CSV row
CompareProfilePasses ==
    /\ pc = "ready"
    /\ input.kind = "compare"
    /\ output' = [kind |-> "compare",
                  player |-> _scrape_player_profile(input.player, Ok(input.page)),
                  row |-> scrape_player_profile(RowOf(input.player), TRUE, Ok(input.page))]
    /\ pc' = "done"
    /\ UNCHANGED << input, managerVars >>

PassNext ==
    \/ ExtractPlayers
    \/ ScrapePlayerProfile
    \/ EnhanceRow
    \/ ExtractPosition
    \/ NormalizeAcademicYear
    \/ ExtractHometownParts

PassSpec == PassInit /\ [][PassNext]_vars

(***************************************************************************)
(* The text and URL helpers, and one labelled field or one page read by    *)
(* two passes                                                              *)
(***************************************************************************)
FieldInputs ==
    {[kind |-> "clean", text |-> t] : t \in CleanTexts}
    \cup {[kind |-> "label", label |-> l, value |-> v] : l \in LabelTexts, v \in LabelValues}
    \cup {[kind |-> "url", team_id |-> id, base_url |-> b, season |-> s, url_format |-> f] :
            id \in UrlTeamIds, b \in UrlBases, s \in UrlSeasons, f \in UrlFormats}
    \cup {[kind |-> "compare", player |-> p, page |-> g] :
            p \in SamplePlayers, g \in ProfilePages}

FieldInit ==
    /\ pc = "ready"
    /\ input \in FieldInputs
    /\ output = [kind |-> "none"]
    /\ ManagerInit

FieldNext ==
    \/ CleanText
    \/ BuildRosterUrl
    \/ ReadLabelledField
    \/ CompareProfilePasses

FieldSpec == FieldInit /\ [][FieldNext]_vars

(***************************************************************************)
(* The passes run on a whole file, on a player twice, and on both shapes   *)
(* of one roster                                                           *)
(***************************************************************************)
BatchInputs ==
    {[kind |-> "shapes", people |-> ps, has_thead |-> th, has_tbody |-> tb] :
        ps \in SeqsUpTo(SamplePeople, MaxRows), th \in BOOLEAN, tb \in BOOLEAN}
    \cup {[kind |-> "csv", file |-> f, force |-> fo, team_filter |-> tf] :
            f \in CsvFiles, fo \in BOOLEAN, tf \in {Empty, t_iowa}}
    \cup {[kind |-> "profile2", player |-> p, first |-> Ok(a), second |-> Ok(b)] :
            p \in SamplePlayers, a \in PairPages, b \in PairPages}

BatchInit ==
    /\ pc = "ready"
    /\ input \in BatchInputs
    /\ output = [kind |-> "none"]
    /\ ManagerInit

\* _scrape_player_profile with each response of a sequence in turn
RECURSIVE EnrichWith(_, _)
EnrichWith(player, responses) ==
    IF responses = << >> THEN player
    ELSE EnrichWith(_scrape_player_profile(player, Head(responses)), Tail(responses))

\* StandardScraper._scrape_player_profile on a player with one page and then
\* with another, and with the two pages in the other order
ScrapePlayerProfileTwice ==
    /\ pc = "ready"
    /\ input.kind = "profile2"
    /\ \E enriched \in {[order \in {<< 1 >>, << 2 >>, << 1, 2 >>, << 2, 1 >>} |->
                            EnrichWith(input.player,
                                       [i \in DOMAIN order |->
                                           IF order[i] = 1 THEN input.first
                                           ELSE input.second])]} :
          output' = [kind |-> "profile2",
                     a |-> enriched[<< 1 >>], b |-> enriched[<< 2 >>],
                     ab |-> enriched[<< 1, 2 >>], ba |-> enriched[<< 2, 1 >>]]
    /\ pc' = "done"
    /\ UNCHANGED << input, managerVars >>

\* ProfileEnhancer.enhance_csv on a roster CSV
EnhanceCsv ==
    /\ pc = "ready"
    /\ input.kind = "csv"
    /\ output' = [kind |-> "csv",
                  file |-> enhance_csv(input.file.fieldnames, input.file.entries,
                                       input.force, input.team_filter)]
    /\ pc' = "done"
    /\ UNCHANGED << input, managerVars >>

\* StandardScraper._extract_players on the table page and on the item-list
\* page of one list of players
ExtractPlayersBothShapes ==
    /\ pc = "ready"
    /\ input.kind = "shapes"
    /\ \E records \in {[shape \in {"table", "items"} |->
                           PlayersOf(_extract_players(
                               IF shape = "table"
                               THEN TablePageOf(input.people, input.has_thead, input.has_tbody)
                               ELSE ItemPageOf(input.people),
                               AllTeams[1].ncaa_id, AllTeams[1].team, t_Season, Empty,
                               AllTeams[1].url, FALSE,
                               [n \in 1..(Len(input.people) + 1) |-> NotFound]))]} :
          output' = [kind |-> "shapes", table |-> records["table"],
                     items |-> records["items"]]
    /\ pc' = "done"
    /\ UNCHANGED << input, managerVars >>

\* StandardScraper._extract_players on a page some of whose containers or
\* rows raise, and on the same page when none raises
ExtractPlayersIsolated ==
    /\ pc = "ready"
    /\ input.kind = "isolation"
    /\ \E outcomes \in {[faults \in BOOLEAN |->
                            _extract_players(
                                IF faults THEN input.page
                                ELSE [input.page EXCEPT !.raising = {}],
                                AllTeams[1].ncaa_id, AllTeams[1].team, t_Season, Empty,
                                AllTeams[1].url, input.scrape_profiles,
                                [n \in 1..FaultSlots(input.page) |->
                                    Ok(BioPage(<< Field(t_Major, t_Biology) >>))])]} :
          output' = [kind |-> "isolation", outcomes |-> outcomes[TRUE],
                     sound |-> outcomes[FALSE]]
    /\ pc' = "done"
    /\ UNCHANGED << input, managerVars >>

BatchNext ==
    \/ ScrapePlayerProfileTwice
    \/ EnhanceCsv
    \/ ExtractPlayersBothShapes

BatchSpec == BatchInit /\ [][BatchNext]_vars

(***************************************************************************)
(* The roster pass on pages some of whose containers or rows raise         *)
(***************************************************************************)
FaultInputs ==
    {[kind |-> "isolation", page |-> p, scrape_profiles |-> sp] :
        p \in FaultPages, sp \in BOOLEAN}

FaultInit ==
    /\ pc = "ready"
    /\ input \in FaultInputs
    /\ output = [kind |-> "none"]
    /\ ManagerInit

FaultNext == ExtractPlayersIsolated

FaultSpec == FaultInit /\ [][FaultNext]_vars

(***************************************************************************)
(* RosterManager.scrape_teams                                              *)
(***************************************************************************)
\* ---- the answers of the sites to the roster requests ----
RosterOk(page) == [raises |-> FALSE, status |-> 200, parse_raises |-> FALSE, body |-> page]
RosterStatus(code) == [raises |-> FALSE, status |-> code, parse_raises |-> FALSE, body |-> NoRosterPage]
RosterRaised == [raises |-> TRUE, status |-> 0, parse_raises |-> FALSE, body |-> NoRosterPage]
RosterUnparsable == [raises |-> FALSE, status |-> 200, parse_raises |-> TRUE, body |-> NoRosterPage]

RosterResponses ==
    { RosterOk(TwoPlayerPage), RosterOk(NoRosterPage),
      RosterOk(ItemPage(<< Item("none", Empty, Empty, << >>) >>)),
      RosterStatus(404), RosterStatus(500), RosterRaised, RosterUnparsable }

\* the values of --limit: absent, or an integer
Limits == {[given |-> FALSE, n |-> 0]} \cup {[given |-> TRUE, n |-> k] : k \in -1..1}

\* teams[:max_teams] if max_teams else teams
Truncate(teams, max_teams) ==
    IF ~max_teams.given \/ max_teams.n = 0 THEN teams
    ELSE IF max_teams.n > 0
         THEN SubSeq(teams, 1, IF max_teams.n > Len(teams) THEN Len(teams) ELSE max_teams.n)
    ELSE SubSeq(teams, 1, Len(teams) + max_teams.n)

\* the runs: a team list as load_teams gives it, --limit, --no-scrape-profiles
RunInputs ==
    {[kind |-> "run", teams |-> SubSeq(AllTeams, 1, n), max_teams |-> m,
      scrape_profiles |-> sp] :
        n \in 1..(IF MaxTeams > Len(AllTeams) THEN Len(AllTeams) ELSE MaxTeams),
        m \in Limits, sp \in BOOLEAN}

\* the answers a site gives to the roster requests of one scrape_team call: one
\* per request made, so a script ends where the code stops asking (lines 459-476)
ResponseScripts ==
    {s \in SeqsUpTo(RosterResponses, 3) :
        /\ Len(s) >= 1
        /\ \A n \in 1..(Len(s) - 1) : ~s[n].raises
        /\ Len(s) = 1 => (s[1].raises \/ s[1].status # 404)
        /\ Len(s) >= 2 => s[1].status = 404
        /\ Len(s) = 2 => (s[2].raises \/ s[2].status = 200)
        /\ Len(s) = 3 => s[2].status # 200}

Init ==
    /\ pc = "scrape_teams"
    /\ input \in RunInputs
    /\ output = [kind |-> "none"]
    /\ ManagerInit

\* all_players = []; teams_to_scrape = teams[:max_teams] if max_teams else teams
BeginScrapeTeams ==
    /\ pc = "scrape_teams"
    /\ teams_to_scrape' = Truncate(input.teams, input.max_teams)
    /\ all_players' = << >>
    /\ idx' = 0
    /\ pc' = "loop"
    /\ UNCHANGED << input, output, successful_teams, zero_player_teams, failed_teams,
                    processed, last_pass, files >>

\* the classification with the else of the zero-player test left out: every
\* team is also counted as successful
ClassifyWithoutElse(team, res) ==
    /\ zero_player_teams' = IF Len(res.players) = 0
                             THEN Append(zero_player_teams,
                                         [team |-> team.team, ncaa_id |-> team.ncaa_id,
                                          url |-> team.url])
                             ELSE zero_player_teams
    /\ all_players' = all_players \o res.players
    /\ successful_teams' = Append(successful_teams,
                                  [team |-> team.team, ncaa_id |-> team.ncaa_id,
                                   player_count |-> Len(res.players)])
    /\ UNCHANGED failed_teams

\* the classification with the records of a team put before those already
\* collected
ClassifyPrepending(team, res) ==
    IF res.raised
    THEN /\ failed_teams' = Append(failed_teams,
                                   [team |-> team.team, ncaa_id |-> team.ncaa_id,
                                    url |-> team.url, error |-> res.error])
         /\ UNCHANGED << all_players, successful_teams, zero_player_teams >>
    ELSE IF Len(res.players) = 0
    THEN /\ zero_player_teams' = Append(zero_player_teams,
                                        [team |-> team.team, ncaa_id |-> team.ncaa_id,
                                         url |-> team.url])
         /\ UNCHANGED << all_players, successful_teams, failed_teams >>
    ELSE /\ all_players' = res.players \o all_players
         /\ successful_teams' = Append(successful_teams,
                                       [team |-> team.team, ncaa_id |-> team.ncaa_id,
                                        player_count |-> Len(res.players)])
         /\ UNCHANGED << zero_player_teams, failed_teams >>

\* the three ways one iteration of the loop ends, for the result res of scrape_team
Classify(team, res) ==
    IF res.raised
    THEN /\ failed_teams' = Append(failed_teams,
                                   [team |-> team.team, ncaa_id |-> team.ncaa_id,
                                    url |-> team.url, error |-> res.error])
         /\ UNCHANGED << all_players, successful_teams, zero_player_teams >>
    ELSE IF Len(res.players) = 0
    THEN /\ zero_player_teams' = Append(zero_player_teams,
                                        [team |-> team.team, ncaa_id |-> team.ncaa_id,
                                         url |-> team.url])
         /\ UNCHANGED << all_players, successful_teams, failed_teams >>
    ELSE /\ all_players' = all_players \o res.players
         /\ successful_teams' = Append(successful_teams,
                                       [team |-> team.team, ncaa_id |-> team.ncaa_id,
                                        player_count |-> Len(res.players)])
         /\ UNCHANGED << zero_player_teams, failed_teams >>

\* an iteration whose failure is not contained: a request that raises ends the
\* loop
ScrapeNextTeamAborting ==
    /\ pc = "loop"
    /\ idx < Len(teams_to_scrape)
    /\ \E responses \in ResponseScripts, profile \in RosterProfileResponses :
          \E res \in {scrape_team(teams_to_scrape[idx + 1], t_Season, Empty,
                                  input.scrape_profiles, responses,
                                  [n \in 1..Len(TwoPlayerPage.items) |-> profile])} :
              /\ Classify(teams_to_scrape[idx + 1], res)
              /\ last_pass' = [players |-> res.players, outcomes |-> res.outcomes,
                               requests |-> res.requests, parsed |-> res.parsed,
                               raised |-> res.raised, error |-> res.error,
                               responses |-> responses,
                               team |-> teams_to_scrape[idx + 1].ncaa_id]
              /\ idx' = IF responses[Len(responses)].raises
                        THEN Len(teams_to_scrape) ELSE idx + 1
    /\ processed' = Append(processed, teams_to_scrape[idx + 1].ncaa_id)
    /\ UNCHANGED << pc, input, output, teams_to_scrape, files >>

\* one iteration of the loop over teams_to_scrape: the site answers the roster
\* requests with responses and every profile request with profile
ScrapeNextTeam ==
    /\ pc = "loop"
    /\ idx < Len(teams_to_scrape)
    /\ \E responses \in ResponseScripts, profile \in RosterProfileResponses :
          \E res \in {scrape_team(teams_to_scrape[idx + 1], t_Season, Empty,
                                  input.scrape_profiles, responses,
                                  [n \in 1..Len(TwoPlayerPage.items) |-> profile])} :
              /\ Classify(teams_to_scrape[idx + 1], res)
              /\ last_pass' = [players |-> res.players, outcomes |-> res.outcomes,
                               requests |-> res.requests, parsed |-> res.parsed,
                               raised |-> res.raised, error |-> res.error,
                               responses |-> responses,
                               team |-> teams_to_scrape[idx + 1].ncaa_id]
    /\ processed' = Append(processed, teams_to_scrape[idx + 1].ncaa_id)
    /\ idx' = idx + 1
    /\ UNCHANGED << pc, input, output, teams_to_scrape, files >>

\* return all_players
ReturnPlayers ==
    /\ pc = "loop"
    /\ idx = Len(teams_to_scrape)
    /\ output' = [kind |-> "run", players |-> all_players]
    /\ pc' = "returned"
    /\ UNCHANGED << input, managerVars >>

\* RosterManager._save_error_reports: each report is written when its list
\* holds a team
_save_error_reports(written) ==
    [written EXCEPT
        !.zero_players = IF zero_player_teams # << >> THEN File(zero_player_teams) ELSE @,
        !.failed_teams = IF failed_teams # << >> THEN File(failed_teams) ELSE @]

\* json.dump(players_dicts, f); if players_dicts: DictWriter ... writerows
WriteRecords(written, players_dicts) ==
    [written EXCEPT !.json = File(players_dicts),
                    !.csv = IF players_dicts # << >> THEN File(players_dicts) ELSE @]

\* RosterManager.save_results: the JSON file, the CSV file when there is a
\* player, then the reports
save_results(players) ==
    \E players_dicts \in {[i \in DOMAIN players |-> to_dict(players[i])]} :
        files' = _save_error_reports(WriteRecords(files, players_dicts))

\* main: if players: manager.save_results(players)
SaveResults ==
    /\ pc = "returned"
    /\ output.players # << >>
    /\ save_results(output.players)
    /\ pc' = "exit"
    /\ UNCHANGED << input, output, teams_to_scrape, idx, all_players, successful_teams,
                    zero_player_teams, failed_teams, processed, last_pass >>

\* main: else: 'No players scraped - no output files generated'
NoOutputFiles ==
    /\ pc = "returned"
    /\ output.players = << >>
    /\ pc' = "exit"
    /\ UNCHANGED << input, output, managerVars >>

Next ==
    \/ BeginScrapeTeams
    \/ ScrapeNextTeam
    \/ ReturnPlayers
    \/ SaveResults
    \/ NoOutputFiles

Spec == Init /\ [][Next]_vars

\* the loop is a for loop of a single thread: an iteration that can run does
FairSpec == Spec /\ WF_vars(Next)

(***************************************************************************)
(* Properties                                                              *)
(***************************************************************************)
\* the fields the profile pass may fill
EnrichedFields ==
    {"position", "height", "year", "major", "hometown", "high_school", "previous_school"}

\* the fields the roster pass fills from labelled fields and columns
PrimaryFields == {"position", "year", "height", "hometown", "high_school"}

PositionCodes == {w_GK, w_D, w_M, w_F, Empty}

\* C1: profile enrichment writes only into empty fields: each of position,
\* height, year, major, hometown, high_school and previous_school that is
\* non-empty before _scrape_player_profile runs has the same value afterwards,
\* whether the pass is run on its own or from the roster pass.
C1_ProfileWritesOnlyEmptyFields ==
    pc = "done" =>
        /\ input.kind = "profile" =>
              \A f \in EnrichedFields :
                  input.player[f] # Empty => output.player[f] = input.player[f]
        /\ input.kind = "roster" =>
              \A n \in DOMAIN output.outcomes : \A f \in EnrichedFields :
                  output.outcomes[n].primary[f] # Empty
                      => output.outcomes[n].player[f] = output.outcomes[n].primary[f]

\* a record whose position is D went through a profile page whose first bio
\* item is Position: Forward; the page filled another field and left D
C1_Witness ==
    /\ pc = "done"
    /\ input.kind = "profile"
    /\ input.player.position = w_D
    /\ ~input.response.raises
    /\ input.response.status = 200
    /\ Len(input.response.page.bio) = 2
    /\ input.response.page.bio[1] = Field(t_Position, t_Forward)
    /\ output.player.position = w_D
    /\ output.player # input.player

\* C2: within the roster-page pass the first writer of a field wins: a field
\* that got a non-empty value from one labelled field or column keeps it, and a
\* high school split from a 'hometown / high school' value is not replaced by
\* a high-school label or column.
C2_FirstWriterWins ==
    (pc = "done" /\ input.kind = "roster") =>
        /\ \A n \in DOMAIN input.page.items : \A f \in PrimaryFields :
              LET meta == input.page.items[n].meta
                  Alone(i) == ItemMetaPass(NoMeta, << meta[i] >>)[f]
                  writers == {i \in DOMAIN meta : Alone(i) # Empty}
              IN  writers # {} => output.outcomes[n].primary[f] = Alone(Min(writers))
        /\ (input.page.items = << >> /\ input.page.tables # << >>) =>
              LET table == input.page.tables[1]
                  cells == HeaderCells(table)
                  headers == [i \in DOMAIN cells |-> Lower(clean_text(cells[i].text))]
                  at == ColumnIndex(headers, {k_hometown})
              IN  \A n \in DOMAIN output.outcomes : \A r \in DOMAIN TableRows(table) :
                      LET cols == TableRows(table)[r]
                      IN  (/\ at # 0
                           /\ at <= Len(cols)
                           /\ output.outcomes[n].primary =
                                 RowPlayer(cols, headers, input.team.ncaa_id, input.team.team,
                                           t_Season, Empty, DomainOf(input.team.url))
                           /\ extract_hometown_parts(clean_text(cols[at].text))[2] # Empty)
                          => output.outcomes[n].primary.high_school =
                                 extract_hometown_parts(clean_text(cols[at].text))[2]

\* C3: the position of every record the scraper produces is GK, D, M, F or
\* empty, and extract_position returns nothing else for any text.
C3_PositionIsACode ==
    pc = "done" =>
        /\ input.kind = "position" => output.position \in PositionCodes
        /\ input.kind = "roster" =>
              \A n \in DOMAIN output.outcomes :
                  output.outcomes[n].player.position \in PositionCodes
        /\ input.kind = "profile" =>
              (input.player.position \in PositionCodes
                  => output.player.position \in PositionCodes)

\* the team ids of a list of report entries
IdsOf(list) == [i \in DOMAIN list |-> list[i].ncaa_id]

\* how often x occurs in seq
Count(seq, x) == Cardinality({i \in DOMAIN seq : seq[i] = x})

\* C4: every team scrape_teams has processed is in exactly one of
\* successful_teams, zero_player_teams and failed_teams, once, whatever the
\* fetches and the parses gave (the team ids of a run are distinct).
C4_ExactlyOneList ==
    \A i \in DOMAIN processed :
        Count(IdsOf(successful_teams), processed[i])
            + Count(IdsOf(zero_player_teams), processed[i])
            + Count(IdsOf(failed_teams), processed[i]) = 1

\* a run of two teams has returned: one gave players, the other none, and the
\* last roster request raised
C4_Witness ==
    /\ pc = "returned"
    /\ Len(processed) = 2
    /\ Len(successful_teams) = 1
    /\ Len(zero_player_teams) = 1
    /\ last_pass.responses[Len(last_pass.responses)].raises

\* C5: a team whose roster fetch or page parse raised is in the failed list
\* with the message of the error, and not in the zero-player list.
C5_RaisedPassIsFailed ==
    (/\ last_pass.team # 0
     /\ \/ last_pass.responses[Len(last_pass.responses)].raises
        \/ last_pass.responses[Len(last_pass.responses)].parse_raises) =>
        /\ \E i \in DOMAIN failed_teams :
              failed_teams[i].ncaa_id = last_pass.team /\ failed_teams[i].error # ""
        /\ \A i \in DOMAIN zero_player_teams : zero_player_teams[i].ncaa_id # last_pass.team

\* C6: scrape_teams hands every team of the truncated list to scrape_team once,
\* in the order of the list, and then returns, whatever the passes gave.
C6_EveryTeamOnceInOrderThenReturn ==
    <>(/\ pc = "returned"
       /\ processed = IdsOf(Truncate(input.teams, input.max_teams)))

\* a run of two teams without a limit has returned: the first team gave no
\* players (its fetch failed or its page held none), the second gave some
C6_Witness ==
    /\ pc = "returned"
    /\ Len(processed) = 2
    /\ Len(zero_player_teams) = 1
    /\ zero_player_teams[1].ncaa_id = processed[1]
    /\ Len(successful_teams) = 1
    /\ ~input.max_teams.given

\* C7: when the season URL gives 404, {base}/roster gives 404 and
\* {base}/roster.aspx gives 200, the body of the third response is the page
\* that is parsed; when all three give 404, scrape_team returns no players and
\* raises nothing.
C7_AspxFallback ==
    LET r == last_pass.responses
    IN  (Len(r) = 3 /\ r[1].status = 404 /\ r[2].status = 404 /\ ~r[3].raises) =>
            /\ (r[3].status = 200 /\ ~r[3].parse_raises) =>
                  /\ last_pass.parsed = 3
                  /\ \E t \in Range(AllTeams) :
                        /\ t.ncaa_id = last_pass.team
                        /\ last_pass.requests[3] = RStripSlash(t.url) \o s_roster_aspx
                  /\ Len(last_pass.players) = Len(r[3].body.items)
                  /\ \A n \in DOMAIN last_pass.players :
                        last_pass.players[n].name = clean_text(r[3].body.items[n].name)
            /\ r[3].status = 404 =>
                  /\ last_pass.players = << >>
                  /\ ~last_pass.raised

\* two 404 and then the page of two players at the .aspx URL: two players
C7_Witness ==
    /\ Len(last_pass.responses) = 3
    /\ last_pass.responses[2].status = 404
    /\ last_pass.responses[3] = RosterOk(TwoPlayerPage)
    /\ Len(last_pass.players) = 2
    /\ last_pass.parsed = 3

\* C8: every record of the item-list pass and of the table pass has a name.
C8_EveryRecordHasAName ==
    (pc = "done" /\ input.kind = "roster") =>
        \A n \in DOMAIN output.outcomes : output.outcomes[n].player.name # Empty

\* a text that is '-' once cleaned, read as no text
DashAsEmpty(text) == IF clean_text(text) = Dash THEN Empty ELSE text

\* a roster page with every '-' value of a labelled field or cell taken out
WithoutDashes(page) ==
    [items |-> [i \in DOMAIN page.items |->
                  [page.items[i] EXCEPT !.meta =
                      [j \in DOMAIN page.items[i].meta |->
                          [page.items[i].meta[j] EXCEPT !.value = DashAsEmpty(@)]]]],
     tables |-> [t \in DOMAIN page.tables |->
                  [page.tables[t] EXCEPT !.body_rows =
                      [r \in DOMAIN page.tables[t].body_rows |->
                          [c \in DOMAIN page.tables[t].body_rows[r] |->
                              [page.tables[t].body_rows[r][c] EXCEPT
                                  !.text = DashAsEmpty(@)]]]]],
     raising |-> page.raising]

\* a profile page with every '-' value taken out
ProfileWithoutDashes(page) ==
    [bio |-> [i \in DOMAIN page.bio |-> [page.bio[i] EXCEPT !.value = DashAsEmpty(@)]],
     dl |-> [dts |-> page.dl.dts,
             dds |-> [i \in DOMAIN page.dl.dds |-> DashAsEmpty(page.dl.dds[i])]],
     tables |-> [t \in DOMAIN page.tables |->
                  [r \in DOMAIN page.tables[t] |->
                      [c \in DOMAIN page.tables[t][r] |->
                          IF c = 2 THEN DashAsEmpty(page.tables[t][r][c])
                          ELSE page.tables[t][r][c]]]]]

\* C9: in every pass a value that is exactly '-' is handled as an empty value
\* is: the pass gives what it gives on the page with the '-' values emptied.
C9_DashIsEmpty ==
    pc = "done" =>
        /\ input.kind = "roster" =>
              PlayersOf(output.outcomes) =
                  PlayersOf(_extract_players(WithoutDashes(input.page), input.team.ncaa_id,
                                             input.team.team, t_Season, Empty, input.team.url,
                                             input.scrape_profiles, input.profiles))
        /\ input.kind = "profile" =>
              output.player =
                  _scrape_player_profile(input.player,
                      [input.response EXCEPT !.page = ProfileWithoutDashes(@)])

\* whether a CSV row is populated
Populated(row) ==
    \E c \in {"position", "height", "class", "hometown"} : c \in DOMAIN row /\ row[c] # Empty

\* C10: a profile is fetched only when the run enriches and the record has a
\* profile URL; in the enhancement tool a populated row is, without force, not
\* fetched and returned as it was.
C10_FetchOnlyWhenAsked ==
    pc = "done" =>
        /\ input.kind = "roster" =>
              \A n \in DOMAIN output.outcomes :
                  /\ output.outcomes[n].fetched
                        => (input.scrape_profiles /\ output.outcomes[n].primary.url # Empty)
                  /\ ~(input.scrape_profiles /\ output.outcomes[n].primary.url # Empty)
                        => output.outcomes[n].player = output.outcomes[n].primary
        /\ input.kind = "enhance" =>
              /\ output.fetched => ("url" \in DOMAIN input.row /\ input.row["url"] # Empty)
              /\ (~input.force /\ Populated(input.row))
                    => (~output.fetched /\ output.row = input.row)

\* a populated row with a profile URL whose page holds a hometown the row
\* lacks: without force it comes back as it was
C10_Witness ==
    /\ pc = "done"
    /\ input.kind = "enhance"
    /\ ~input.force
    /\ Populated(input.row)
    /\ Get(input.row, "hometown") = Empty
    /\ Strip(Get(input.row, "url")) # Empty
    /\ input.response.status = 200
    /\ \E i \in DOMAIN input.response.page.bio :
          input.response.page.bio[i] = Field(t_Hometown, t_Boston)
    /\ output.row = input.row
    /\ ~output.fetched

\* a response after which the profile pass reads no page
FailedResponse(response) ==
    response.raises \/ response.status # 200 \/ response.parse_raises

\* C11: a failure of the enrichment is not fatal and leaves the record as it
\* was: when the profile request raises or answers with a status other than
\* 200, or the parse of the page raises, the pass returns the record with every
\* field as it was before the pass, in the scraper and in the enhancement tool.
C11_FailedEnrichmentLeavesRecord ==
    pc = "done" =>
        /\ (input.kind = "profile" /\ FailedResponse(input.response))
              => (output.kind = "profile" /\ output.player = input.player)
        /\ (input.kind = "enhance" /\ FailedResponse(input.response))
              => (output.kind = "enhance" /\ output.row = input.row)

\* a record without a position asked for its profile and got an error response
\* whose body holds a position: the record came back as it was
C11_Witness ==
    /\ pc = "done"
    /\ input.kind = "profile"
    /\ input.player.url # Empty
    /\ input.player.position = Empty
    /\ input.response = ErrorWithBody
    /\ output.fetched
    /\ output.player = input.player

\* C12: the profile pass is idempotent: applying it a second time with the same
\* page to the record it returned changes nothing, for _scrape_player_profile
\* and for ProfileEnhancer.scrape_player_profile with force set.
C12_ProfilePassIdempotent ==
    pc = "done" =>
        /\ input.kind = "profile"
              => _scrape_player_profile(output.player, input.response) = output.player
        /\ (input.kind = "enhance" /\ input.force)
              => scrape_player_profile(output.row, TRUE, input.response) = output.row

\* the scraper's half of C12 alone
ScraperPassIdempotent ==
    (pc = "done" /\ input.kind = "profile")
        => _scrape_player_profile(output.player, input.response) = output.player

\* the fields a pass changed
ChangedFields(before, after) == {f \in EnrichedFields : after[f] # before[f]}

\* C13 as stated: for every record and every two profile pages A and B,
\* enriching with A and then B gives the same field values as enriching with B
\* and then A.
C13_EnrichmentCommutes ==
    (pc = "done" /\ input.kind = "profile2") => output.ab = output.ba

\* C13, amended: the two orders give the same record when no field is filled
\* by both pages; in either order the fields the first page filled keep the
\* values of the first page.
C13_EnrichmentCommutesOnDisjointFields ==
    (pc = "done" /\ input.kind = "profile2") =>
        /\ ChangedFields(input.player, output.a) \cap ChangedFields(input.player, output.b) = {}
              => output.ab = output.ba
        /\ \A f \in ChangedFields(input.player, output.a) : output.ab[f] = output.a[f]
        /\ \A f \in ChangedFields(input.player, output.b) : output.ba[f] = output.b[f]

\* a record took its class from one page and its major from the other, in
\* both orders
C13_Witness ==
    /\ pc = "done"
    /\ input.kind = "profile2"
    /\ ChangedFields(input.player, output.a) = {"year"}
    /\ ChangedFields(input.player, output.b) = {"major"}
    /\ ChangedFields(input.player, output.ab) = {"year", "major"}
    /\ output.ab = output.ba

\* the cells of the input that hold a value hold the same value in the output
NonEmptyCellsKept(entries, rows) ==
    \A i \in DOMAIN entries : \A c \in DOMAIN entries[i].row :
        entries[i].row[c] # Empty => (c \in DOMAIN rows[i] /\ rows[i][c] = entries[i].row[c])

\* C14: enhance_csv round-trips the input CSV: the write succeeds for every
\* header that has name, team and url; the output has the input's columns and
\* one row per input row in the same order; every cell that held a value holds
\* the same value, so a cell differs only if it was empty and was filled.
C14_EnhanceCsvRoundTrips ==
    (pc = "done" /\ input.kind = "csv") =>
        /\ ~output.file.raised
        /\ output.file.fieldnames = input.file.fieldnames
        /\ Len(output.file.rows) = Len(input.file.entries)
        /\ NonEmptyCellsKept(input.file.entries, output.file.rows)

\* C14 for the runs without a team filter
EnhanceCsvRoundTripsUnfiltered ==
    (pc = "done" /\ input.kind = "csv" /\ input.team_filter = Empty) =>
        /\ ~output.file.raised
        /\ output.file.fieldnames = input.file.fieldnames
        /\ Len(output.file.rows) = Len(input.file.entries)
        /\ NonEmptyCellsKept(input.file.entries, output.file.rows)

\* C14 for the runs without a team filter on a file with every column the
\* enhancer writes
EnhanceCsvRoundTripsFullHeader ==
    (pc = "done" /\ input.kind = "csv" /\ input.team_filter = Empty
       /\ {"position", "height", "class", "major", "hometown", "high_school",
           "previous_school"} \subseteq Range(input.file.fieldnames)) =>
        /\ ~output.file.raised
        /\ output.file.fieldnames = input.file.fieldnames
        /\ Len(output.file.rows) = Len(input.file.entries)
        /\ NonEmptyCellsKept(input.file.entries, output.file.rows)

\* the team ids a report file names
Named(file) == {file.content[i].ncaa_id : i \in DOMAIN file.content}

\* the run is over, the records it returned are in the JSON file, and every
\* team of the zero-record list and of the failed list is named in its report
RecordsAndReportsWritten ==
    /\ pc = "exit"
    /\ output.players # << >> =>
          (files.json.written /\ Len(files.json.content) = Len(output.players))
    /\ {zero_player_teams[i].ncaa_id : i \in DOMAIN zero_player_teams} \subseteq Named(files.zero_players)
    /\ {failed_teams[i].ncaa_id : i \in DOMAIN failed_teams} \subseteq Named(files.failed_teams)

\* C15: every run of the batch tool completes and eventually has written the
\* records it extracted and the reports naming each zero-record team and each
\* failed team, for every combination of per-team outcomes and any number of
\* records.
C15_RunWritesRecordsAndReports == <>RecordsAndReportsWritten

\* every run completes
RunCompletes == <>(pc = "exit")

\* a run that extracted a record writes the records and both reports
RunWithRecordsWritesAll ==
    (pc = "exit" /\ output.players # << >>) => RecordsAndReportsWritten

\* two lists of records agree in length and, record by record, in name,
\* position, class and hometown
SameRecords(a, b) ==
    /\ Len(a) = Len(b)
    /\ \A i \in DOMAIN a :
          /\ a[i].name = b[i].name
          /\ a[i].position = b[i].position
          /\ a[i].year = b[i].year
          /\ a[i].hometown = b[i].hometown

\* C16: for one list of players, the page with no item container and a table of
\* a header row and one row per player gives as many records, in the same
\* order and with the same name, position, class and hometown, as the item-list
\* page of that list.
C16_TableShapeEquivalent ==
    (pc = "done" /\ input.kind = "shapes") => SameRecords(output.table, output.items)

\* C16 for the tables whose rows are not split between a thead and a tbody
TableShapeEquivalentUnlessTheadAndTbody ==
    (pc = "done" /\ input.kind = "shapes" /\ ~(input.has_thead /\ input.has_tbody))
        => SameRecords(output.table, output.items)

\* under a thead and a tbody the table gives the records of the item list but
\* the first
TableDropsFirstRowUnderTheadAndTbody ==
    (pc = "done" /\ input.kind = "shapes" /\ input.has_thead /\ input.has_tbody
       /\ input.people # << >>)
        => SameRecords(output.table, Tail(output.items))

\* the sum of the player_count entries of a list of successful teams
RECURSIVE SumOfCounts(_)
SumOfCounts(list) ==
    IF list = << >> THEN 0 ELSE Head(list).player_count + SumOfCounts(Tail(list))

\* every successful team has a record, and the counts add up to the records
\* collected
CountsMatchRecords ==
    /\ \A i \in DOMAIN successful_teams : successful_teams[i].player_count >= 1
    /\ SumOfCounts(successful_teams) = Len(all_players)
    /\ pc \in {"returned", "exit"} => output.players = all_players

\* an iteration appends the records scrape_team returned, all of them and in
\* their order, and enters the team as successful with their number; a team
\* without records leaves the collected records and the successful list alone
IterationAppendsRecords ==
    (pc = "loop" /\ idx' = idx + 1) =>
        /\ all_players' = all_players \o last_pass'.players
        /\ successful_teams' =
              IF last_pass'.players = << >> THEN successful_teams
              ELSE Append(successful_teams,
                          [team |-> teams_to_scrape[idx'].team,
                           ncaa_id |-> teams_to_scrape[idx'].ncaa_id,
                           player_count |-> Len(last_pass'.players)])

\* C17: the list scrape_teams returns is the concatenation, in input order, of
\* the records of the successful teams; zero-record and failed teams add none;
\* every successful entry has player_count >= 1, and the player_count values
\* add up to the number of returned records.
C17_ReturnedListIsConcatenation ==
    []CountsMatchRecords /\ [][IterationAppendsRecords]_vars

\* a run of two teams has returned the records of both
C17_Witness ==
    /\ pc = "returned"
    /\ Len(successful_teams) = 2
    /\ successful_teams[1].player_count + successful_teams[2].player_count
          = Len(output.players)
    /\ IdsOf(successful_teams) = IdsOf(input.teams)

\* s is the word written in some casing
IsCasingOf(s, word) ==
    /\ Len(s) = Len(word)
    /\ \A i \in 1..Len(s) : s[i] \in {word[i], ToLowerChar(word[i])}

\* the code C18 names for each token
GoalkeeperTokens == {w_GK, w_G, w_GOALKEEPER, w_GOALIE}
DefenseTokens == {w_D, w_DEF, w_DEFENSE, w_DEFENDER, w_B, w_BACK}
MidfieldTokens == {w_M, w_MF, w_MID, w_MIDFIELDER, w_MIDFIELD}
ForwardTokens ==
    {w_F, w_FW, w_FOR, w_FORWARD, w_A, w_ATT, w_ATTACK, w_ATTACKER, w_O, w_OFFENSE}

CodeOfToken(tok) ==
    IF tok \in GoalkeeperTokens THEN w_GK
    ELSE IF tok \in DefenseTokens THEN w_D
    ELSE IF tok \in MidfieldTokens THEN w_M
    ELSE w_F

\* no token stands as a word in the text and no full position word is in it
NoPositionWord(text) ==
    /\ \A tok \in GoalkeeperTokens \cup DefenseTokens \cup MidfieldTokens \cup ForwardTokens :
          \A i \in 1..Len(Strip(text)) : ~TokenMatchesAt(Strip(text), i, tok)
    /\ \A word \in {w_GOALKEEPER, w_GOALIE, w_KEEPER, w_DEFENSE, w_DEFENDER, w_BACK,
                    w_MIDFIELDER, w_MIDFIELD, w_FORWARD, w_ATTACK, w_OFFENSE} :
          ~Contains(Upper(Strip(text)), word)

\* C18: extract_position is total and ignores case over its tokens: every
\* token in every upper/lower casing gives the code of its group (GK, D, M or
\* F), and a text with neither a token as a word nor a full position word in
\* it gives ''.
C18_PositionOfEveryTokenCasing ==
    (pc = "done" /\ input.kind = "position") =>
        /\ \A tok \in GoalkeeperTokens \cup DefenseTokens \cup MidfieldTokens \cup ForwardTokens :
              IsCasingOf(input.text, tok) => output.position = CodeOfToken(tok)
        /\ NoPositionWord(input.text) => output.position = Empty

\* 'gOaLiE' gave GK
C18_Witness ==
    /\ pc = "done"
    /\ input.kind = "position"
    /\ input.text = <<"g","O","a","L","i","E">>
    /\ output.position = w_GK

\* the abbreviations of each class, as the table of line 201 lists them
FreshmanKeys ==
    {<<"F","r">>, <<"F","r",".">>, <<"F","R">>, <<"1","s","t">>, <<"F","i","r","s","t">>}
SophomoreKeys ==
    {<<"S","o">>, <<"S","o",".">>, <<"S","O">>, <<"2","n","d">>, <<"S","e","c","o","n","d">>}
JuniorKeys ==
    {<<"J","r">>, <<"J","r",".">>, <<"J","R">>, <<"3","r","d">>, <<"T","h","i","r","d">>}
SeniorKeys ==
    {<<"S","r">>, <<"S","r",".">>, <<"S","R">>, <<"4","t","h">>, <<"F","o","u","r","t","h">>}
GraduateKeys ==
    {<<"G","r">>, <<"G","r",".">>, <<"G","R">>, <<"5","t","h">>, <<"F","i","f","t","h">>}
RedshirtFreshmanKeys == {<<"R","-","F","r">>, <<"R","-","F","r",".">>}
RedshirtSophomoreKeys == {<<"R","-","S","o">>, <<"R","-","S","o",".">>}
RedshirtJuniorKeys == {<<"R","-","J","r">>, <<"R","-","J","r",".">>}
RedshirtSeniorKeys == {<<"R","-","S","r">>, <<"R","-","S","r",".">>}

\* C19: normalize_academic_year is an exact-match lookup: every abbreviation of
\* the table gives its full word (Jr. gives Junior), every other text comes
\* back unchanged (Unknown gives Unknown), and no text makes it raise.
C19_YearIsExactLookup ==
    (pc = "done" /\ input.kind = "year") =>
        output.year =
            IF input.text \in FreshmanKeys THEN Freshman
            ELSE IF input.text \in SophomoreKeys THEN Sophomore
            ELSE IF input.text \in JuniorKeys THEN Junior
            ELSE IF input.text \in SeniorKeys THEN Senior
            ELSE IF input.text \in GraduateKeys THEN Graduate
            ELSE IF input.text \in RedshirtFreshmanKeys THEN RedshirtFreshman
            ELSE IF input.text \in RedshirtSophomoreKeys THEN RedshirtSophomore
            ELSE IF input.text \in RedshirtJuniorKeys THEN RedshirtJunior
            ELSE IF input.text \in RedshirtSeniorKeys THEN RedshirtSenior
            ELSE input.text

\* 'jr.' is no key of the table and came back as it is
C19_Witness ==
    /\ pc = "done"
    /\ input.kind = "year"
    /\ input.text = <<"j","r",".">>
    /\ output.year = <<"j","r",".">>

\* the index of the first '/' of s, Len(s) + 1 when s has none
FirstSlash(s) == SkipUntil(s, 1, {"/"})

\* C20: extract_hometown_parts splits on the first '/': a text with a '/'
\* gives the trimmed text before the first '/' and the trimmed text after it,
\* also when a side is empty or the text after holds more '/'; a text without
\* '/' gives the trimmed text and ''.
C20_SplitsOnFirstSlash ==
    (pc = "done" /\ input.kind = "hometown") =>
        output.parts =
            IF FirstSlash(input.text) <= Len(input.text)
            THEN << Strip(SubSeq(input.text, 1, FirstSlash(input.text) - 1)),
                    Strip(SubSeq(input.text, FirstSlash(input.text) + 1, Len(input.text))) >>
            ELSE << Strip(input.text), Empty >>

\* C20 for the texts that have a character before the first '/' and a
\* character after it
SplitsOnFirstSlashBetweenTexts ==
    (pc = "done" /\ input.kind = "hometown"
       /\ FirstSlash(input.text) \in 2..(Len(input.text) - 1)) =>
        output.parts =
            << Strip(SubSeq(input.text, 1, FirstSlash(input.text) - 1)),
               Strip(SubSeq(input.text, FirstSlash(input.text) + 1, Len(input.text))) >>

\* C21: clean_text is idempotent: cleaning a cleaned text changes nothing; the
\* result has no whitespace at either end and no two whitespace characters in
\* a row, and the empty text gives the empty text.
C21_CleanTextIdempotent ==
    (pc = "done" /\ input.kind = "clean") =>
        /\ output.twice = output.once
        /\ output.once # << >> =>
              /\ output.once[1] \notin WhitespaceChars
              /\ output.once[Len(output.once)] \notin WhitespaceChars
        /\ \A i \in 1..(Len(output.once) - 1) :
              ~(output.once[i] \in WhitespaceChars /\ output.once[i + 1] \in WhitespaceChars)
        /\ input.text = << >> => output.once = << >>

\* a text with whitespace at both ends and a run of a newline and a tab inside
\* was cleaned to two letters around one space
C21_Witness ==
    /\ pc = "done"
    /\ input.kind = "clean"
    /\ input.text = << " ", "a", "\n", "\t", "a" >>
    /\ output.once = << "a", " ", "a" >>
    /\ output.twice = << "a", " ", "a" >>

\* the base URL without its trailing slashes, then /roster/ and the season
SeasonRosterUrl(base_url, season) ==
    LET ends == {n \in 0..Len(base_url) : \A i \in (n + 1)..Len(base_url) : base_url[i] = "/"}
    IN  SubSeq(base_url, 1, Min(ends)) \o s_roster \o << "/" >> \o season

\* C22: the roster URL requested first for a team is the base URL without its
\* trailing slashes followed by /roster/ and the season, whatever the format:
\* the per-team override, the auto-detected format and an unknown format value
\* all give that URL.
C22_RosterUrlIgnoresFormat ==
    (pc = "done" /\ input.kind = "url") =>
        /\ output.url = SeasonRosterUrl(input.base_url, input.season)
        /\ output.roster_url = SeasonRosterUrl(input.base_url, input.season)

\* a team with an override, a base URL of the other family that ends with two
\* slashes, and a format value the builder does not know
C22_Witness ==
    /\ pc = "done"
    /\ input.kind = "url"
    /\ input.team_id = 312
    /\ Contains(input.base_url, s_sports_field_hockey)
    /\ Len(input.base_url) >= 2
    /\ SubSeq(input.base_url, Len(input.base_url) - 1, Len(input.base_url)) = << "/", "/" >>
    /\ input.url_format = "sidearm"
    /\ output.resolved = "fhockey"
    /\ output.url = output.roster_url
    /\ output.url[Len(input.base_url) - 1] = "/"
    /\ output.url[Len(input.base_url) - 2] = "y"

\* the three roster URLs of the team of the last scrape_team call
RosterUrlsOf(team_id) ==
    LET team == AllTeams[CHOOSE i \in DOMAIN AllTeams : AllTeams[i].ncaa_id = team_id]
    IN  << SeasonRosterUrl(team.url, t_Season), RStripSlash(team.url) \o s_roster,
           RStripSlash(team.url) \o s_roster_aspx >>

\* the requests of the last call are the first URLs of the three, and none
\* follows a request that raised or a response with status 200
RequestsArePrefix ==
    last_pass.team # 0 =>
        /\ Len(last_pass.requests) \in 1..3
        /\ last_pass.requests = SubSeq(RosterUrlsOf(last_pass.team), 1, Len(last_pass.requests))
        /\ Len(last_pass.responses) = Len(last_pass.requests)
        /\ \A n \in 1..(Len(last_pass.requests) - 1) :
              ~last_pass.responses[n].raises /\ last_pass.responses[n].status # 200

\* C23: the roster requests of scrape_team are the first one, two or three of
\* the season URL, {base}/roster and {base}/roster.aspx; a retry URL is
\* requested only after a 404 response, each at most once, and none after a
\* response with status 200.
C23_RetryOnlyAfterNotFound ==
    /\ RequestsArePrefix
    /\ last_pass.team # 0 =>
          \A n \in 2..Len(last_pass.requests) : last_pass.responses[n - 1].status = 404

\* what the code does: {base}/roster is requested after a 404, {base}/roster.aspx
\* after any answer to {base}/roster that is not 200
RetryAfterNotFoundThenAfterNot200 ==
    /\ RequestsArePrefix
    /\ last_pass.team # 0 =>
          /\ Len(last_pass.requests) >= 2 => last_pass.responses[1].status = 404
          /\ Len(last_pass.requests) = 3 => last_pass.responses[2].status # 200

\* the records as created, before the profile pass
PrimariesOf(outcomes) == [n \in DOMAIN outcomes |-> outcomes[n].primary]

\* the members of a sequence of positions that are in no set of failures
Surviving(positions, raising) == SelectSeq(positions, LAMBDA n : n \notin raising)

\* the records the item-list shape creates from the containers that do not raise
FromItems(page) ==
    LET kept == Surviving([n \in 1..Len(page.items) |-> n], page.raising)
    IN  [k \in DOMAIN kept |->
            ItemPlayer(page.items[kept[k]], AllTeams[1].ncaa_id, AllTeams[1].team, t_Season,
                       Empty, DomainOf(AllTeams[1].url))]

\* C24: the table shape is applied to a page if and only if the page holds no
\* item-list container; with at least one container every record comes from
\* the item-list shape and the table shape is not run, however many records
\* the item-list shape gives.
C24_TableShapeOnlyWithoutContainers ==
    (pc = "done" /\ input.kind = "isolation") =>
        IF input.page.items = << >>
        THEN output.outcomes =
                 _extract_players_from_table(input.page, AllTeams[1].ncaa_id, AllTeams[1].team,
                                             t_Season, Empty, AllTeams[1].url,
                                             input.scrape_profiles,
                                             [n \in 1..FaultSlots(input.page) |->
                                                 Ok(BioPage(<< Field(t_Major, t_Biology) >>))])
        ELSE PrimariesOf(output.outcomes) = FromItems(input.page)

\* a page holds two containers that both raise and a table with a player row:
\* no record was produced
C24_Witness ==
    /\ pc = "done"
    /\ input.kind = "isolation"
    /\ Len(input.page.items) = 2
    /\ input.page.raising = {1, 2}
    /\ input.page.tables # << >>
    /\ Len(input.page.tables[1].body_rows) = 2
    /\ Len(input.page.tables[1].body_rows[2]) >= 2
    /\ output.outcomes = << >>
    /\ output.sound # << >>

\* the rows of a table after its header row: those of the body when the
\* header is in a thead, else those after the first tr
PlayerRows(table) == IF table.has_thead THEN table.body_rows ELSE Tail(table.body_rows)

\* one record for every row of at least two cells, in row order
OneRecordPerRow(table, outcomes, team, rows) ==
    LET cells == HeaderCells(table)
        headers == [i \in DOMAIN cells |-> Lower(clean_text(cells[i].text))]
        wide == SelectSeq(rows, LAMBDA row : Len(row) >= 2)
    IN  /\ Len(outcomes) = Len(wide)
        /\ \A k \in DOMAIN wide :
              outcomes[k].primary = RowPlayer(wide[k], headers, team.ncaa_id, team.team,
                                              t_Season, Empty, DomainOf(team.url))

\* a roster page read by the table shape: no container, a table with a header row
TableShapeRead ==
    /\ pc = "done"
    /\ input.kind = "roster"
    /\ input.page.items = << >>
    /\ input.page.tables # << >>
    /\ input.page.tables[1].has_thead \/ input.page.tables[1].body_rows # << >>

\* C25: the table shape skips only the header row and gives one record, in row
\* order, for every other row of at least two cells, with the header in a
\* thead and the player rows in a tbody as with the header as the first tr.
C25_TableYieldsOnePerRow ==
    TableShapeRead =>
        OneRecordPerRow(input.page.tables[1], output.outcomes, input.team,
                        PlayerRows(input.page.tables[1]))

\* what the code does: it holds unless the table has both a thead and a tbody
TableYieldsOnePerRowUnlessTheadAndTbody ==
    (TableShapeRead /\ ~(input.page.tables[1].has_thead /\ input.page.tables[1].has_tbody)) =>
        OneRecordPerRow(input.page.tables[1], output.outcomes, input.team,
                        PlayerRows(input.page.tables[1]))

\* with a thead and a tbody the first row of the tbody is skipped as well
TableSkipsFirstBodyRowUnderTheadAndTbody ==
    (TableShapeRead /\ input.page.tables[1].has_thead /\ input.page.tables[1].has_tbody
       /\ input.page.tables[1].body_rows # << >>) =>
        OneRecordPerRow(input.page.tables[1], output.outcomes, input.team,
                        Tail(input.page.tables[1].body_rows))

\* the field of the first rule, in the order position/pos, height/ht,
\* class/year/eligibility, major/academic, hometown, high school/hs, previous
\* school/last school/transfer, whose substring is in the case-folded label
RuleField(label) ==
    LET l == Lower(clean_text(label))
        Has(keys) == \E k \in keys : Contains(l, k)
    IN  IF Has({k_position, k_pos}) THEN "position"
        ELSE IF Has({k_height, k_ht}) THEN "height"
        ELSE IF Has({k_class, k_year, k_eligibility}) THEN "year"
        ELSE IF Has({k_major, k_academic}) THEN "major"
        ELSE IF Has({k_hometown}) THEN "hometown"
        ELSE IF Has({k_high_school, k_hs}) THEN "high_school"
        ELSE IF Has({k_previous_school, k_last_school, k_transfer}) THEN "previous_school"
        ELSE "none"

\* a value every normalizer of the field takes
GoodValue(field) ==
    CASE field = "position" -> t_Forward
      [] field = "height" -> t_FiveSix
      [] field = "year" -> t_Jr
      [] field = "major" -> t_Biology
      [] field = "hometown" -> t_Austin
      [] field = "high_school" -> t_OtherHS
      [] field = "previous_school" -> t_StateU
      [] OTHER -> Empty

\* the record holds a value in the field and in no other field a label fills
FillsOnly(record, field) ==
    \A g \in EnrichedFields : (record[g] # Empty) <=> (g = field)

\* C26: in the item-list shape a label fills the field of the first rule of
\* the fixed order whose substring is in the case-folded label; the roster
\* pass and the bio pass of the profile use the same ordered rules, so a label
\* and value fill the same field in both.
C26_SameOrderedRules ==
    (pc = "done" /\ input.kind = "label"
       /\ input.value = GoodValue(RuleField(input.label))) =>
        /\ FillsOnly(output.item, RuleField(input.label))
        /\ FillsOnly(output.bio, RuleField(input.label))
        /\ \A g \in EnrichedFields : output.item[g] = output.bio[g]

\* what the code does: the bio pass of the profile follows the ordered rules
BioPassFollowsRules ==
    (pc = "done" /\ input.kind = "label") =>
        /\ RuleField(input.label) = "none" => FillsOnly(output.bio, "none")
        /\ input.value = GoodValue(RuleField(input.label))
              => FillsOnly(output.bio, RuleField(input.label))

\* the roster pass has the rules position/pos, class/year, hometown, high
\* school, height, in this order
ItemRuleField(label) ==
    LET l == Lower(clean_text(label))
        Has(keys) == \E k \in keys : Contains(l, k)
    IN  IF Has({k_position, k_pos}) THEN "position"
        ELSE IF Has({k_class, k_year}) THEN "year"
        ELSE IF Has({k_hometown}) THEN "hometown"
        ELSE IF Has({k_high_school}) THEN "high_school"
        ELSE IF Has({k_height}) THEN "height"
        ELSE "none"

RosterPassFollowsItsRules ==
    (pc = "done" /\ input.kind = "label") =>
        /\ ItemRuleField(input.label) = "none" => FillsOnly(output.item, "none")
        /\ input.value = GoodValue(ItemRuleField(input.label))
              => FillsOnly(output.item, ItemRuleField(input.label))

\* the texts of a roster page a height can be read from: the values of the
\* custom fields and the cells of the rows
RosterTexts(page) ==
    UNION {{page.items[i].meta[j].value : j \in DOMAIN page.items[i].meta} :
              i \in DOMAIN page.items}
    \cup UNION {UNION {{rows[r][c].text : c \in DOMAIN rows[r]} : r \in DOMAIN rows} :
                  rows \in {page.tables[t].body_rows : t \in DOMAIN page.tables}}

\* the texts of a profile page a height can be read from
ProfileTexts(page) ==
    {page.bio[i].value : i \in DOMAIN page.bio}
    \cup Range(page.dl.dds)
    \cup UNION {{page.tables[t][r][2] : r \in {n \in DOMAIN page.tables[t] :
                                                    Len(page.tables[t][n]) >= 2}} :
                  t \in DOMAIN page.tables}

\* the height is empty or what extract_height finds in one of the texts
HeightIsExtracted(height, texts) ==
    height = Empty \/ \E v \in texts : height = extract_height(clean_text(v))

\* C27: a value that matches no pattern of extract_height leaves the height
\* empty in every pass, item-list, table and profile: the record never takes
\* the raw text.
C27_MismatchLeavesHeightEmpty ==
    pc = "done" =>
        /\ input.kind = "roster" =>
              \A n \in DOMAIN output.outcomes :
                  HeightIsExtracted(output.outcomes[n].primary.height, RosterTexts(input.page))
        /\ input.kind = "profile" =>
              \/ output.player.height = input.player.height
              \/ HeightIsExtracted(output.player.height, ProfileTexts(input.response.page))
        /\ input.kind = "label" =>
              /\ HeightIsExtracted(output.item.height, {input.value})
              /\ HeightIsExtracted(output.bio.height, {input.value})

\* what the code does: the item-list pass leaves the height empty
ItemPassLeavesMismatchEmpty ==
    pc = "done" =>
        /\ (input.kind = "roster" /\ input.page.items # << >>) =>
              \A n \in DOMAIN output.outcomes :
                  HeightIsExtracted(output.outcomes[n].primary.height, RosterTexts(input.page))
        /\ input.kind = "label" => HeightIsExtracted(output.item.height, {input.value})

\* the table pass and the profile pass keep the cleaned text
TableAndProfileKeepRawHeight ==
    (pc = "done" /\ input.kind = "label" /\ RuleField(input.label) = "height"
       /\ extract_height(clean_text(input.value)) = Empty) =>
        output.bio.height = clean_text(input.value)

\* the containers or rows of a page that give a record when none raises, by
\* position: every container, or every row after the first that has at least
\* two cells
Sources(page) ==
    IF page.items # << >> THEN [n \in 1..Len(page.items) |-> n]
    ELSE IF page.tables = << >> THEN << >>
    ELSE LET rows == TableRows(page.tables[1])
         IN  SelectSeq([n \in 1..Len(rows) |-> n], LAMBDA n : n > 1 /\ Len(rows[n]) >= 2)

\* the outcomes of a run without failures, less those of the given positions
WithoutFailed(sound, sources, raising) ==
    LET kept == SelectSeq([k \in 1..Len(sound) |-> k], LAMBDA k : sources[k] \notin raising)
    IN  [i \in DOMAIN kept |-> sound[kept[i]]]

\* C28: when the parse of a player's container or row raises, that player
\* alone is skipped: the records of the other players of the page are
\* produced, in page order and with the values they have when no parse
\* raises, and the page pass returns its list.
C28_FailureSkipsOnePlayer ==
    (pc = "done" /\ input.kind = "isolation") =>
        /\ Len(output.sound) = Len(Sources(input.page))
        /\ output.outcomes = WithoutFailed(output.sound, Sources(input.page), input.page.raising)

\* the second of three containers raised, profiles were asked for: the first
\* and the third player are the records, enriched from their profiles
C28_Witness ==
    /\ pc = "done"
    /\ input.kind = "isolation"
    /\ input.scrape_profiles
    /\ Len(input.page.items) = 3
    /\ input.page.raising = {2}
    /\ input.page.items[1].name_kind = "link"
    /\ input.page.items[3].name_kind = "link"
    /\ Len(output.outcomes) = 2
    /\ output.outcomes = << output.sound[1], output.sound[3] >>
    /\ output.outcomes[2].fetched
    /\ output.outcomes[2].player.major = t_Biology

\* the fields set when the Player is created and left alone afterwards
IdentityFields == {"team_id", "season", "team", "division", "name", "jersey", "url"}

\* C29: identity fields are frozen after creation: the profile pass never
\* changes a record's team_id, season, team, division, name, jersey or url, for
\* any profile page and any outcome of the fetch, run on its own or from the
\* roster pass; every record the roster pass produces carries the team_id and
\* the season the pass was called with.
C29_IdentityFieldsFrozen ==
    pc = "done" =>
        /\ input.kind = "profile" =>
              \A f \in IdentityFields : output.player[f] = input.player[f]
        /\ input.kind = "roster" =>
              \A n \in DOMAIN output.outcomes :
                  /\ \A f \in IdentityFields :
                        output.outcomes[n].player[f] = output.outcomes[n].primary[f]
                  /\ output.outcomes[n].player.team_id = input.team.ncaa_id
                  /\ output.outcomes[n].player.season = t_Season

\* a player with a jersey and a profile link came out of the roster pass with
\* fields the profile page filled, and with the identity the roster page gave
C29_Witness ==
    /\ pc = "done"
    /\ input.kind = "roster"
    /\ input.scrape_profiles
    /\ \E n \in DOMAIN output.outcomes :
          /\ output.outcomes[n].fetched
          /\ output.outcomes[n].primary.jersey # Empty
          /\ output.outcomes[n].primary.name # Empty
          /\ output.outcomes[n].player # output.outcomes[n].primary
          /\ \A f \in IdentityFields :
                output.outcomes[n].player[f] = output.outcomes[n].primary[f]
          /\ output.outcomes[n].player.team_id = 457

\* the CSV column of a field of the Player: year is written under 'class'
ColumnOf(field) == IF field = "year" THEN "class" ELSE field

\* the seven fields of the row equal those of the Player
SameEnrichedFields(row, player) ==
    \A f \in EnrichedFields : Get(row, ColumnOf(f)) = player[f]

\* C30: the two implementations of the profile pass agree: for the same
\* starting values of position, height, class, major, hometown, high_school and
\* previous_school and the same profile page, ProfileEnhancer.scrape_player_profile
\* with force set and StandardScraper._scrape_player_profile end with the same
\* values in all seven fields, also for a label that holds the substrings of
\* more than one rule when the field of the first matching rule is filled.
C30_ProfilePassesAgree ==
    (pc = "done" /\ input.kind = "compare")
        => SameEnrichedFields(output.row, output.player)

\* the labels of a profile page, as the rules read them
ProfileLabels(page) ==
    {Lower(clean_text(page.bio[i].label)) : i \in DOMAIN page.bio}
    \cup {Lower(clean_text(page.dl.dts[i])) : i \in DOMAIN page.dl.dts}
    \cup UNION {{Lower(clean_text(page.tables[t][r][1])) :
                    r \in {n \in DOMAIN page.tables[t] : Len(page.tables[t][n]) >= 1}} :
                  t \in DOMAIN page.tables}

\* the label holds a substring of the class rule and one of the major rule
ClassAndMajorLabel(label) ==
    /\ Contains(label, k_class) \/ Contains(label, k_year) \/ Contains(label, k_eligibility)
    /\ Contains(label, k_major) \/ Contains(label, k_academic)

\* the two implementations agree on the pages none of whose labels holds the
\* substrings of both the class rule and the major rule
ProfilePassesAgreeOnOneRuleLabels ==
    (pc = "done" /\ input.kind = "compare"
        /\ \A l \in ProfileLabels(input.page) : ~ClassAndMajorLabel(l))
        => SameEnrichedFields(output.row, output.player)

\* on a record whose class is filled and whose major is empty, and a page
\* whose one item is 'Academic Year', the scraper writes nothing and the
\* enhancer writes the value into major
EnhancerFallsThroughToMajor ==
    (pc = "done" /\ input.kind = "compare"
        /\ input.player.url # Empty
        /\ input.player.year # Empty /\ input.player.major = Empty
        /\ input.page = BioPage(<< Field(t_AcademicYear, t_Jr) >>))
        => /\ output.player = input.player
           /\ Get(output.row, "major") = t_Jr
           /\ Get(output.row, "class") = input.player.year

====
